---- MODULE Spec2Model ----
(***************************************************************************)
(* A model of the command interpretation and dispatch core of the MCP      *)
(* board: the audit logger (mcp_logger.py), the chart and post-management  *)
(* parsers (mcp_server_real.py), the dispatchers (app.py) and the record   *)
(* store (database.py).                                                    *)
(***************************************************************************)
EXTENDS Integers, Sequences, FiniteSets, TLC

(***************************************************************************)
(* Bounds of the model.                                                    *)
(***************************************************************************)
\* capacity of the logger under check (MCPLogger(max_logs=...))
max_logs == 2
\* number of log() bodies executed in one behaviour
MaxRecords == 4

None == "None"

(***************************************************************************)
(* mcp_logger.py: LogLevel, MCPLogEntry                                    *)
(***************************************************************************)
\* A level value: a member of the LogLevel enumeration (typed = TRUE, value
\* its .value) or a bare str passed where a LogLevel is expected.
LogLevel == { [typed |-> TRUE, value |-> v] :
                v \in {"info", "success", "warning", "error", "debug"} }

INFO    == [typed |-> TRUE, value |-> "info"]
SUCCESS == [typed |-> TRUE, value |-> "success"]
WARNING == [typed |-> TRUE, value |-> "warning"]
ERROR   == [typed |-> TRUE, value |-> "error"]

RawLevel(v) == [typed |-> FALSE, value |-> v]

\* MCPLogEntry(level, category, message, details): seq is the position of
\* the log() call in call order (the timestamp's role).
MCPLogEntry(n, level, category, message, details) ==
    [seq |-> n, level |-> level, category |-> category,
     message |-> message, details |-> details]

NoDetails == [present |-> FALSE]

\* MCPLogEntry.to_dict: result['level'] = self.level.value, which raises
\* AttributeError when level is a bare str.
to_dict_raises(entry) == ~entry.level.typed

to_dict(entry) == [entry EXCEPT !.level = entry.level.value]

(***************************************************************************)
(* Python list helpers                                                     *)
(***************************************************************************)
\* s[-n:] for n > 0
LastN(s, n) ==
    IF n >= Len(s) THEN s ELSE SubSeq(s, Len(s) - n + 1, Len(s))

\* s[:n] for n >= 0
FirstN(s, n) ==
    IF n >= Len(s) THEN s ELSE SubSeq(s, 1, n)

\* the mutant of TrimLogs: keeps the oldest entries instead of the newest
TrimLogsKeepOldest(buf, cap) ==
    IF Len(buf) > cap THEN FirstN(buf, cap) ELSE buf

\* log(): if len(self.logs) > self.max_logs: self.logs = self.logs[-max_logs:]
TrimLogs(buf, cap) ==
    IF Len(buf) > cap THEN LastN(buf, cap) ELSE buf

\* the mutant of AppendLog: trims before it appends
AppendLogTrimFirst(buf, entry, cap) == Append(TrimLogs(buf, cap), entry)

\* log() body between acquiring and releasing the lock: append, then trim
AppendLog(buf, entry, cap) == TrimLogs(Append(buf, entry), cap)

\* get_logs(): self.logs[-limit:] if limit else self.logs
\* (limit None and limit 0 are both falsy)
\* An optional int is <<>> for None and <<n>> for the int n.
logs_to_return(buf, limit) ==
    IF limit = <<>> THEN buf
    ELSE IF limit[1] = 0 THEN buf
    ELSE LastN(buf, limit[1])

\* get_logs(): [log.to_dict() for log in logs_to_return]
to_dicts(s) == [i \in 1..Len(s) |-> to_dict(s[i])]

(***************************************************************************)
(* Text.  A command is a sequence of characters; a character is written    *)
(* as a short ASCII name.  Hangul syllables are romanised, one name per    *)
(* syllable: "ui" U+C758, "gwa" U+ACFC, "wa" U+C640, "nim" U+B2D8,         *)
(* "gabs" U+AC12, "geul" U+AE00, "de i teo" U+B370 U+C774 U+D130,          *)
(* "su chi" U+C218 U+CE58, "jag seong ja" U+C791 U+C131 U+C790,            *)
(* "mo deun" U+BAA8 U+B4E0, "mo du" U+BAA8 U+B450, "jeon che" U+C804       *)
(* U+CCB4, "jeon bu" U+C804 U+BD80, "sa ram deul" U+C0AC U+B78C U+B4E4.    *)
(* "a", "b", "A" are Latin letters, " " the space, "," the comma, "dq"     *)
(* and "sq" the double and the single quote.                               *)
(***************************************************************************)
\* re: \s
IsSpace(c) == c = " "

\* re: \w (letters of any script, digits, underscore): every character of
\* the alphabet but the space and the punctuation
IsWord(c) == c \notin {" ", ",", "dq", "sq", ".", ":"}

\* str.lower(): only cased letters change
LowerChar(c) == IF c = "A" THEN "a" ELSE c

lower(s) == [i \in 1..Len(s) |-> LowerChar(s[i])]

\* the literal lit occurs in s at position i
LitAt(s, i, lit) ==
    /\ i >= 1
    /\ i + Len(lit) - 1 <= Len(s)
    /\ \A k \in 1..Len(lit) : s[i + k - 1] = lit[k]

\* some literal of the set lits occurs in s at position i
AnyLitAt(s, i, lits) == \E lit \in lits : LitAt(s, i, lit)

\* keyword in command
Contains(s, lit) == \E i \in 1..Len(s) : LitAt(s, i, lit)

\* the position after the longest run of spaces that starts at i (re: \s*)
SkipSpaces(s, i) ==
    IF \E k \in i..Len(s) : ~IsSpace(s[k])
    THEN CHOOSE k \in i..Len(s) :
             /\ ~IsSpace(s[k])
             /\ \A m \in i..(k - 1) : IsSpace(s[m])
    ELSE Len(s) + 1

\* the last position of the longest run of word characters that starts at
\* i; i - 1 when s[i] is no word character (re: greedy \w+)
WordRunEnd(s, i) ==
    IF \E k \in i..Len(s) : ~IsWord(s[k])
    THEN (CHOOSE k \in i..Len(s) :
             /\ ~IsWord(s[k])
             /\ \A m \in i..(k - 1) : IsWord(s[m])) - 1
    ELSE Len(s)

\* str.strip()
strip(s) ==
    IF \A k \in 1..Len(s) : IsSpace(s[k]) THEN <<>>
    ELSE LET first == CHOOSE k \in 1..Len(s) :
                          ~IsSpace(s[k]) /\ \A m \in 1..(k - 1) : IsSpace(s[m])
             last  == CHOOSE k \in 1..Len(s) :
                          ~IsSpace(s[k]) /\ \A m \in (k + 1)..Len(s) : IsSpace(s[m])
         IN SubSeq(s, first, last)

SetMax(S) == CHOOSE x \in S : \A y \in S : y <= x

SetMin(S) == CHOOSE x \in S : \A y \in S : x <= y

\* list(dict.fromkeys(names)): duplicates removed, first-seen order kept
RECURSIVE fromkeys(_)
fromkeys(names) ==
    IF names = <<>> THEN <<>>
    ELSE LET front == fromkeys(SubSeq(names, 1, Len(names) - 1))
             x == names[Len(names)]
         IN IF \E i \in 1..Len(front) : front[i] = x
            THEN front ELSE Append(front, x)

(***************************************************************************)
(* mcp_server_real.py: RealMCPServer._parse_chart_command_fallback         *)
(***************************************************************************)
UI == <<"ui">>
DE_I_TEO == <<"de", "i", "teo">>
JAG_SEONG_JA == <<"jag", "seong", "ja">>
SA_RAM == <<"sa", "ram">>

\* (?:de-i-teo|gabs|su-chi|geul)
DataWords == {DE_I_TEO, <<"gabs">>, <<"su", "chi">>, <<"geul">>}

\* A search result: found, and the text of group 1.
NoMatch == [found |-> FALSE, group |-> <<>>]

Match(g) == [found |-> TRUE, group |-> g]

\* re.search picks the leftmost start, and a greedy group its longest
\* extent: Ends(i) is the set of group ends that let the rest of the
\* pattern match when the group starts at i.
\* author_patterns[0]: (\w+)ui\s*(?:de-i-teo|gabs|su-chi|geul)
P1Ends(s, i) ==
    { j \in i..WordRunEnd(s, i) :
        /\ LitAt(s, j + 1, UI)
        /\ AnyLitAt(s, SkipSpaces(s, j + 2), DataWords) }

\* author_patterns[1]: (\w+)\s*jag-seong-ja
P2Ends(s, i) ==
    { j \in i..WordRunEnd(s, i) : LitAt(s, SkipSpaces(s, j + 1), JAG_SEONG_JA) }

\* author_patterns[2]: (\w+)\s*nim
P3Ends(s, i) ==
    { j \in i..WordRunEnd(s, i) : LitAt(s, SkipSpaces(s, j + 1), <<"nim">>) }

\* author_patterns[3] and [4]: q([^q]+)q for the quote q; the group starts
\* at i + 1 and ends before the next q
QuoteEnds(s, i, q) ==
    IF i <= Len(s) /\ s[i] = q
    THEN { j \in (i + 1)..(Len(s) - 1) :
             /\ s[j + 1] = q
             /\ \A k \in (i + 1)..j : s[k] # q }
    ELSE {}

\* match = re.search(pattern, command); match.group(1).strip()
SearchP1(s) ==
    LET starts == { i \in 1..Len(s) : P1Ends(s, i) # {} }
    IN IF starts = {} THEN NoMatch
       ELSE LET i == SetMin(starts)
            IN Match(strip(SubSeq(s, i, SetMax(P1Ends(s, i)))))

SearchP2(s) ==
    LET starts == { i \in 1..Len(s) : P2Ends(s, i) # {} }
    IN IF starts = {} THEN NoMatch
       ELSE LET i == SetMin(starts)
            IN Match(strip(SubSeq(s, i, SetMax(P2Ends(s, i)))))

SearchP3(s) ==
    LET starts == { i \in 1..Len(s) : P3Ends(s, i) # {} }
    IN IF starts = {} THEN NoMatch
       ELSE LET i == SetMin(starts)
            IN Match(strip(SubSeq(s, i, SetMax(P3Ends(s, i)))))

SearchQuote(s, q) ==
    LET starts == { i \in 1..Len(s) : QuoteEnds(s, i, q) # {} }
    IN IF starts = {} THEN NoMatch
       ELSE LET i == SetMin(starts)
            IN Match(strip(SubSeq(s, i + 1, SetMax(QuoteEnds(s, i, q)))))

\* the five author_patterns in list order
AuthorPatternMatches(s) ==
    <<SearchP1(s), SearchP2(s), SearchP3(s),
      SearchQuote(s, "dq"), SearchQuote(s, "sq")>>

\* for pattern in author_patterns: ... if match: author_name = ...; break
\* (the local author_name; <<>> with found = FALSE is None)
author_name_local(s) ==
    LET ms == AuthorPatternMatches(s)
    IN IF \E k \in 1..5 : ms[k].found
       THEN ms[SetMin({ k \in 1..5 : ms[k].found })]
       ELSE NoMatch

\* chart_type_keywords, in dict order; the scan stops at the first type
\* other than "bar" that has a keyword in the command
LineKeywords == { <<"seon", "geu", "rae", "peu">>, <<"ra", "in">>,
                  <<"seon", "hyeong">>, <<"kkeokk", "eun", "seon">> }

PieKeywords == { <<"won", "geu", "rae", "peu">>, <<"pa", "i">>,
                 <<"won", "hyeong">> }

DoughnutKeywords == { <<"do", "neos">>, <<"do", "neo", "cheu">> }

KeywordIn(s, kws) ==
    \E kw \in kws : Contains(s, kw) \/ Contains(lower(s), kw)

extract_chart_type(s) ==
    IF KeywordIn(s, LineKeywords) THEN "line"
    ELSE IF KeywordIn(s, PieKeywords) THEN "pie"
    ELSE IF KeywordIn(s, DoughnutKeywords) THEN "doughnut"
    ELSE "bar"

\* all_authors_patterns: mo-deun\s*sa-ram(deul)?, jeon-che\s*(?:sa-ram(deul)?|
\* jag-seong-ja|de-i-teo), mo-deun\s*jag-seong-ja, mo-du(...)?, jeon-bu(...)?
AllAuthorsMatch(s) ==
    \E i \in 1..Len(s) :
        \/ LitAt(s, i, <<"mo", "deun">>) /\ LitAt(s, SkipSpaces(s, i + 2), SA_RAM)
        \/ /\ LitAt(s, i, <<"jeon", "che">>)
           /\ AnyLitAt(s, SkipSpaces(s, i + 2), {SA_RAM, JAG_SEONG_JA, DE_I_TEO})
        \/ LitAt(s, i, <<"mo", "deun">>)
               /\ LitAt(s, SkipSpaces(s, i + 2), JAG_SEONG_JA)
        \/ LitAt(s, i, <<"mo", "du">>)
        \/ LitAt(s, i, <<"jeon", "bu">>)

\* multi_author_patterns[0]: (\w+)(?:gwa|wa|,)\s*(\w+)
\* group 1 ends at j, the separator is s[j+1], group 2 is the word run
\* after the spaces
M1Ends(s, i) ==
    { j \in i..WordRunEnd(s, i) :
        /\ j + 1 <= Len(s)
        /\ s[j + 1] \in {"gwa", "wa", ","}
        /\ LET k == SkipSpaces(s, j + 2)
           IN k <= Len(s) /\ IsWord(s[k]) }

\* re.findall from position pos on: the groups of the successive,
\* non-overlapping leftmost matches
RECURSIVE M1FindAll(_, _)
M1FindAll(s, pos) ==
    LET starts == { i \in pos..Len(s) : M1Ends(s, i) # {} }
    IN IF starts = {} THEN <<>>
       ELSE LET i == SetMin(starts)
                j == SetMax(M1Ends(s, i))
                k == SkipSpaces(s, j + 2)
                e == WordRunEnd(s, k)
            IN <<SubSeq(s, i, j), SubSeq(s, k, e)>> \o M1FindAll(s, e + 1)

\* multi_author_patterns[1]: (\w+)\s+(\w+)(?:\s+de-i-teo|ui)
\* group 1 is a word run followed by a space; group 2 starts at k and is
\* either its whole word run followed by spaces and de-i-teo, or else the
\* longest proper prefix of the run that is followed by ui.
M2Start(s, i) ==
    LET j == WordRunEnd(s, i)
    IN /\ j >= i
       /\ j + 1 <= Len(s)
       /\ IsSpace(s[j + 1])
       /\ LET k == SkipSpaces(s, j + 1)
          IN k <= Len(s) /\ IsWord(s[k])

M2Second(s, i) == SkipSpaces(s, WordRunEnd(s, i) + 1)

M2Data(s, k) ==
    LET r == WordRunEnd(s, k)
    IN /\ r + 1 <= Len(s)
       /\ IsSpace(s[r + 1])
       /\ LitAt(s, SkipSpaces(s, r + 1), DE_I_TEO)

M2UiEnds(s, k) == { m \in k..(WordRunEnd(s, k) - 1) : s[m + 1] = "ui" }

M2At(s, i) ==
    M2Start(s, i) /\ (M2Data(s, M2Second(s, i)) \/ M2UiEnds(s, M2Second(s, i)) # {})

RECURSIVE M2FindAll(_, _)
M2FindAll(s, pos) ==
    LET starts == { i \in pos..Len(s) : M2At(s, i) }
    IN IF starts = {} THEN <<>>
       ELSE LET i == SetMin(starts)
                j == WordRunEnd(s, i)
                k == M2Second(s, i)
                r == WordRunEnd(s, k)
            IN IF M2Data(s, k)
               THEN <<SubSeq(s, i, j), SubSeq(s, k, r)>>
                        \o M2FindAll(s, SkipSpaces(s, r + 1) + 3)
               ELSE LET m == SetMax(M2UiEnds(s, k))
                    IN <<SubSeq(s, i, j), SubSeq(s, k, m)>>
                           \o M2FindAll(s, m + 2)

\* for pattern in multi_author_patterns: matches = re.findall(...);
\* if matches: extend author_names with the groups; break
multi_author_names(s) ==
    IF M1FindAll(s, 1) # <<>> THEN M1FindAll(s, 1) ELSE M2FindAll(s, 1)

\* The author_names of a chart intent: None, the string "ALL_AUTHORS", or
\* a list of names.
NoNames == [kind |-> "None", names |-> <<>>]

ALL_AUTHORS == [kind |-> "ALL_AUTHORS", names |-> <<>>]

NameList(l) == [kind |-> "list", names |-> l]

\* bool(author_names) / "if author_names"
NamesTruthy(an) == an.kind = "ALL_AUTHORS" \/ (an.kind = "list" /\ an.names # <<>>)

\* confidence values are held in hundredths
FallbackConfidence == 80

\* the mutant of parse_chart_command_fallback: the name list is returned as
\* matched, without list(dict.fromkeys(...))
parse_chart_command_fallback_nodedup(command) ==
    LET s == strip(command)
        all == AllAuthorsMatch(s)
        names == IF all THEN <<>> ELSE multi_author_names(s)
        author_names == IF all THEN ALL_AUTHORS
                        ELSE IF names # <<>> THEN NameList(names) ELSE NoNames
    IN [ author_names |-> author_names,
         author_name |-> IF ~all /\ Len(names) = 1 THEN names[1] ELSE <<>>,
         chart_type |-> extract_chart_type(s),
         valid |-> NamesTruthy(author_names),
         confidence |-> IF NamesTruthy(author_names) THEN FallbackConfidence ELSE 0,
         method |-> "regex_fallback",
         is_multi_author |-> all \/ Len(names) > 1 ]

\* the mutant of parse_chart_command_fallback: the multi-name patterns are
\* tried first, the all-authors phrases only when they find no name
parse_chart_command_fallback_names_first(command) ==
    LET s == strip(command)
        names == fromkeys(multi_author_names(s))
        all == names = <<>> /\ AllAuthorsMatch(s)
        author_names == IF names # <<>> THEN NameList(names)
                        ELSE IF all THEN ALL_AUTHORS ELSE NoNames
    IN [ author_names |-> author_names,
         author_name |-> IF Len(names) = 1 THEN names[1] ELSE <<>>,
         chart_type |-> extract_chart_type(s),
         valid |-> NamesTruthy(author_names),
         confidence |-> IF NamesTruthy(author_names) THEN FallbackConfidence ELSE 0,
         method |-> "regex_fallback",
         is_multi_author |-> all \/ Len(names) > 1 ]

\* _parse_chart_command_fallback(command): the returned dict (explanation
\* and original_command left out; author_name <<>> is None).  The local
\* author_name of the five single-name patterns is computed and not used.
parse_chart_command_fallback(command) ==
    LET s == strip(command)
        all == AllAuthorsMatch(s)
        names == IF all THEN <<>> ELSE fromkeys(multi_author_names(s))
        author_names == IF all THEN ALL_AUTHORS
                        ELSE IF names # <<>> THEN NameList(names) ELSE NoNames
    IN [ author_names |-> author_names,
         author_name |-> IF ~all /\ Len(names) = 1 THEN names[1] ELSE <<>>,
         chart_type |-> extract_chart_type(s),
         valid |-> NamesTruthy(author_names),
         confidence |-> IF NamesTruthy(author_names) THEN FallbackConfidence ELSE 0,
         method |-> "regex_fallback",
         is_multi_author |-> all \/ Len(names) > 1 ]

(***************************************************************************)
(* State                                                                   *)
(***************************************************************************)
VARIABLES
    logs,       \* MCPLogger.logs
    lock,       \* MCPLogger._lock: Free, or the task holding it
    pc,         \* per task: the logger coroutine it is in
    arg,        \* per task: the arguments of the pending call
    inClear,    \* per task: log() was awaited from inside clear_logs()
    result,     \* per task: what its last completed call returned
    nlog,       \* number of log() bodies executed (call order)
    recorded,   \* history: every entry appended since the last logs.clear()
    store,      \* the posts table, in id order
    req,        \* the request being served: its kind, command and AI behaviour
    stage,      \* where the request is: "none", "submitted", "parsed", "done"
    parsed,     \* the ParsedIntent returned by the parser
    response,   \* the result returned to the caller
    handlers,   \* history: the handlers invoked for the request
    storeOps,   \* history: the store operations performed for the request
    appended,   \* history: the log entries appended for the request
    store0      \* history: the store when the request was submitted

loggerVars == <<logs, lock, pc, arg, inClear, result, nlog, recorded>>

requestVars == <<store, req, stage, parsed, response, handlers, storeOps,
                 appended, store0>>

vars == <<logs, lock, pc, arg, inClear, result, nlog, recorded, store, req,
          stage, parsed, response, handlers, storeOps, appended, store0>>

\* the asyncio tasks (in-flight requests) that call the logger
Tasks == {"t1", "t2"}

Free == "free"

\* the levels and category the modelled callers of log() pass
CallLevels == {INFO, ERROR}

Categories == {"api_call"}

Limits == {<<>>} \cup { <<n>> : n \in 0..(max_logs + 1) }

NoArg == [level |-> INFO, category |-> "system", message |-> "none", limit |-> <<>>]

NoResult == [kind |-> "none", limit |-> <<>>, val |-> <<>>, hist |-> <<>>]

(***************************************************************************)
(* MCPLogger: construction                                                 *)
(***************************************************************************)
LoggerInit ==
    /\ logs = <<>>
    /\ lock = Free
    /\ pc = [p \in Tasks |-> "idle"]
    /\ arg = [p \in Tasks |-> NoArg]
    /\ inClear = [p \in Tasks |-> FALSE]
    /\ result = [p \in Tasks |-> NoResult]
    /\ nlog = 0
    /\ recorded = <<>>

NoRequest == [kind |-> "none"]

NoIntent == [valid |-> FALSE, method |-> "none"]

NoResponse == [status_code |-> 0]

\* no request is being served
RequestIdle ==
    /\ store = <<>>
    /\ req = NoRequest
    /\ stage = "none"
    /\ parsed = NoIntent
    /\ response = NoResponse
    /\ handlers = <<>>
    /\ storeOps = <<>>
    /\ appended = <<>>
    /\ store0 = <<>>

LoggerSpecInit == LoggerInit /\ RequestIdle

(***************************************************************************)
(* A task calls one of the logger's coroutines.                            *)
(***************************************************************************)
CallLog(p, level, category) ==
    /\ pc[p] = "idle"
    /\ nlog < MaxRecords
    /\ pc' = [pc EXCEPT ![p] = "log"]
    /\ arg' = [arg EXCEPT ![p] = [level |-> level, category |-> category,
                                  message |-> "event", limit |-> <<>>]]
    /\ result' = [result EXCEPT ![p] = NoResult]
    /\ UNCHANGED <<logs, lock, inClear, nlog, recorded>>
    /\ UNCHANGED requestVars

CallGetLogs(p, limit) ==
    /\ pc[p] = "idle"
    /\ pc' = [pc EXCEPT ![p] = "get_logs"]
    /\ arg' = [arg EXCEPT ![p] = [NoArg EXCEPT !.limit = limit]]
    /\ result' = [result EXCEPT ![p] = NoResult]
    /\ UNCHANGED <<logs, lock, inClear, nlog, recorded>>
    /\ UNCHANGED requestVars

CallClearLogs(p) ==
    /\ pc[p] = "idle"
    /\ nlog < MaxRecords
    /\ pc' = [pc EXCEPT ![p] = "clear_logs"]
    /\ arg' = [arg EXCEPT ![p] = NoArg]
    /\ result' = [result EXCEPT ![p] = NoResult]
    /\ UNCHANGED <<logs, lock, inClear, nlog, recorded>>
    /\ UNCHANGED requestVars

(***************************************************************************)
(* MCPLogger.log: async with self._lock: append, trim, print.  The body    *)
(* has no suspension point, so once the lock is acquired it runs to the    *)
(* release.  asyncio.Lock is not reentrant: the guard is lock = Free also     *)
(* for the task that holds it.  When log() was awaited from clear_logs()   *)
(* the return continues clear_logs, whose own "async with" exit releases   *)
(* the lock it holds.                                                      *)
(***************************************************************************)
log(p) ==
    /\ pc[p] = "log"
    /\ lock = Free
    /\ LET entry == MCPLogEntry(nlog + 1, arg[p].level, arg[p].category,
                                arg[p].message, NoDetails)
       IN /\ logs' = AppendLog(logs, entry, max_logs)
          /\ recorded' = Append(recorded, entry)
    /\ nlog' = nlog + 1
    /\ lock' = Free
    /\ inClear' = [inClear EXCEPT ![p] = FALSE]
    /\ pc' = [pc EXCEPT ![p] = "idle"]
    /\ result' = [result EXCEPT ![p] =
                    [NoResult EXCEPT !.kind = IF inClear[p] THEN "cleared"
                                                            ELSE "logged"]]
    /\ arg' = [arg EXCEPT ![p] = NoArg]
    /\ UNCHANGED requestVars

(***************************************************************************)
(* MCPLogger.get_logs                                                      *)
(***************************************************************************)
\* the mutant of get_logs: a read that consumes the entries it returns
get_logs_draining(p) ==
    /\ pc[p] = "get_logs"
    /\ lock = Free
    /\ LET ret == logs_to_return(logs, arg[p].limit)
       IN /\ result' = [result EXCEPT ![p] =
                [kind |-> "list", limit |-> arg[p].limit,
                 val |-> to_dicts(ret), hist |-> recorded]]
          /\ logs' = FirstN(logs, Len(logs) - Len(ret))
    /\ pc' = [pc EXCEPT ![p] = "idle"]
    /\ arg' = [arg EXCEPT ![p] = NoArg]
    /\ UNCHANGED <<lock, inClear, nlog, recorded>>
    /\ UNCHANGED requestVars

get_logs(p) ==
    /\ pc[p] = "get_logs"
    /\ lock = Free
    /\ LET ret == logs_to_return(logs, arg[p].limit)
       IN result' = [result EXCEPT ![p] =
            IF \E i \in 1..Len(ret) : to_dict_raises(ret[i])
            THEN [kind |-> "raise", limit |-> arg[p].limit,
                  val |-> <<>>, hist |-> recorded]
            ELSE [kind |-> "list", limit |-> arg[p].limit,
                  val |-> to_dicts(ret), hist |-> recorded]]
    /\ pc' = [pc EXCEPT ![p] = "idle"]
    /\ arg' = [arg EXCEPT ![p] = NoArg]
    /\ UNCHANGED <<logs, lock, inClear, nlog, recorded>>
    /\ UNCHANGED requestVars

(***************************************************************************)
(* MCPLogger.clear_logs: async with self._lock: self.logs.clear();         *)
(* await self.log(INFO, "system", ...) -- still holding the lock.          *)
(***************************************************************************)
clear_logs(p) ==
    /\ pc[p] = "clear_logs"
    /\ lock = Free
    /\ lock' = p
    /\ logs' = <<>>
    /\ recorded' = <<>>
    /\ inClear' = [inClear EXCEPT ![p] = TRUE]
    /\ arg' = [arg EXCEPT ![p] = [level |-> INFO, category |-> "system",
                                  message |-> "logs_cleared", limit |-> <<>>]]
    /\ pc' = [pc EXCEPT ![p] = "log"]
    /\ UNCHANGED <<result, nlog>>
    /\ UNCHANGED requestVars

LoggerNext ==
    \E p \in Tasks :
        \/ \E level \in CallLevels, category \in Categories :
               CallLog(p, level, category)
        \/ \E limit \in Limits : CallGetLogs(p, limit)
        \/ CallClearLogs(p)
        \/ log(p)
        \/ get_logs(p)
        \/ clear_logs(p)

LoggerSpec == LoggerSpecInit /\ [][LoggerNext]_vars

(***************************************************************************)
(* Claims about the logger                                                 *)
(***************************************************************************)
Min(a, b) == IF a <= b THEN a ELSE b

\* C1: the buffer never holds more than max_logs entries, and a
\* get_logs(None) made after n log() calls (levels being LogLevel members,
\* no clear in between) returns exactly min(n, max_logs) entries: the most
\* recently recorded ones, in call order.
C1_CapacityLaw ==
    /\ Len(logs) <= max_logs
    /\ \A p \in Tasks :
         (result[p].kind \in {"list", "raise"} /\ result[p].limit = <<>>) =>
            /\ result[p].kind = "list"
            /\ Len(result[p].val) = Min(Len(result[p].hist), max_logs)
            /\ result[p].val = to_dicts(LastN(result[p].hist, max_logs))
            /\ \A i \in 1..(Len(result[p].val) - 1) :
                   result[p].val[i].seq < result[p].val[i + 1].seq

\* C1 witness: a get_logs(None) answered after more than max_logs log()
\* calls, returning max_logs entries.
C1_Witness ==
    \E p \in Tasks :
        /\ result[p].kind = "list"
        /\ result[p].limit = <<>>
        /\ Len(result[p].hist) > max_logs
        /\ Len(result[p].val) = max_logs

\* C2: a clear_logs() that has been entered can always go on to append its
\* confirming entry and return (it is never left waiting for a lock that
\* nobody will release).
C2_ClearCompletes ==
    \A p \in Tasks : inClear[p] => ENABLED log(p)

(***************************************************************************)
(* The vocabulary of the bounded chart commands                            *)
(***************************************************************************)
\* the longest command, in words of the vocabulary
MaxWords == 4

\* the vocabulary the commands are built from
Words == { <<"a">>, <<"b">>, UI, <<" ">>, <<"gabs">>, <<"gwa">>, <<",">>,
           <<"nim">>, <<"mo", "du">> }

RECURSIVE Concats(_)
Concats(n) ==
    IF n = 0 THEN {<<>>}
    ELSE Concats(n - 1) \cup {c \o w : c \in Concats(n - 1), w \in Words}

(***************************************************************************)
(* database.py: the posts table and DatabaseManager                        *)
(***************************************************************************)
\* the most rows the table starts with
MaxRows == 2

\* author names: "a" and "b" write posts, "c" never does
A == <<"a">>
B == <<"b">>
C == <<"c">>

\* Post(author, title, content, numeric_value, category); id is the
\* autoincrement key and created_at the insertion time.  content,
\* numeric_value and category are nullable: <<>> is NULL, <<v>> the value v.
Post(id, author, title, content, numeric_value, category) ==
    [id |-> id, author |-> author, title |-> title, content |-> content,
     numeric_value |-> numeric_value, category |-> category,
     created_at |-> id]

\* the rows a table may start with
SampleRows ==
    { [author |-> a, numeric_value |-> v] : a \in {A, B}, v \in {<<>>, <<[m |-> 10, e |-> 0]>>} }

Stores ==
    UNION { { [i \in 1..n |->
                 Post(i, f[i].author, <<"t">>, <<<<"c">>>>, f[i].numeric_value, <<>>)] :
              f \in [1..n -> SampleRows] } : n \in 0..MaxRows }

\* session.query(Post).filter(Post.author == author_name).all()
get_posts_by_author(st, author_name) ==
    SelectSeq(st, LAMBDA post : post.author = author_name)

RECURSIVE Reverse(_)
Reverse(s) == IF s = <<>> THEN <<>> ELSE Append(Reverse(Tail(s)), Head(s))

\* session.query(Post).order_by(Post.created_at.desc()).all(); the table
\* is kept in insertion order
get_all_posts(st) == Reverse(st)

RECURSIVE Authors(_)
Authors(rows) ==
    IF rows = <<>> THEN <<>> ELSE <<Head(rows).author>> \o Authors(Tail(rows))

\* the same query without .distinct()
get_authors_not_distinct(st) ==
    Authors(SelectSeq(st, LAMBDA post : post.numeric_value # <<>>))

\* session.query(Post.author).filter(Post.numeric_value.isnot(None))
\*     .distinct().all()
get_authors_with_numeric_data(st) ==
    fromkeys(Authors(SelectSeq(st, LAMBDA post : post.numeric_value # <<>>)))

\* session.query(Post).filter(Post.id == post_id).first(): the rows found,
\* at most one
get_post_by_id(st, post_id) ==
    SelectSeq(st, LAMBDA post : post.id = post_id)

\* DatabaseManager.update_post: the table afterwards
update_post(st, post_id, title, content, author) ==
    [i \in 1..Len(st) |->
        IF st[i].id = post_id
        THEN [st[i] EXCEPT !.title = title, !.content = content,
                           !.author = author]
        ELSE st[i]]

\* DatabaseManager.delete_post: the table afterwards
delete_post(st, post_id) ==
    SelectSeq(st, LAMBDA post : post.id # post_id)

\* the next autoincrement key
NextId(st) == IF st = <<>> THEN 1 ELSE st[Len(st)].id + 1

\* DatabaseManager.add_post: the table afterwards
add_post(st, author, title, content, numeric_value, category) ==
    Append(st, Post(NextId(st), author, title, content, numeric_value, category))

(***************************************************************************)
(* chart_generator.py: ChartGenerator                                      *)
(***************************************************************************)
validate_chart_type(chart_type) ==
    chart_type \in {"bar", "line", "pie", "doughnut"}

\* [post for post in posts if post.get('numeric_value') is not None]
get_author_numeric_data(st, author_name) ==
    SelectSeq(get_posts_by_author(st, author_name),
              LAMBDA post : post.numeric_value # <<>>)

\* ChartGenerator.get_available_authors, and MCPServer.get_available_authors
\* wrapping it ('authors' of its result)
get_available_authors(st) == get_authors_with_numeric_data(st)

(***************************************************************************)
(* mcp_logger.py: the logging helpers, as the log() call each one makes    *)
(***************************************************************************)
LogCall(level, category, message, details) ==
    [level |-> level, category |-> category, message |-> message,
     details |-> details]

log_api_call(api_name) ==
    LogCall(INFO, "api_call", "api_call", [api |-> api_name])

log_api_response(api_name, success) ==
    LogCall(IF success THEN SUCCESS ELSE ERROR, "api_call", "api_response",
            [api |-> api_name])

log_parsing(res) ==
    LogCall(IF res.valid THEN SUCCESS ELSE WARNING, "parsing", "parsing",
            [method |-> res.method, valid |-> res.valid])

log_chart_generation(chart_type, authors, success, method) ==
    LogCall(IF success THEN SUCCESS ELSE ERROR, "chart_generation",
            "chart_generation",
            [chart_type |-> chart_type, authors |-> authors,
             method |-> method, success |-> success])

log_system_event(event, details) == LogCall(INFO, "system", event, details)

log_error(category) == LogCall(ERROR, category, "error", NoDetails)

log_mcp_warning(category) == LogCall(WARNING, category, "warning", NoDetails)

\* the entries a run of log() calls creates, the first one numbered n + 1
Entries(n, calls) ==
    [i \in 1..Len(calls) |->
        MCPLogEntry(n + i, calls[i].level, calls[i].category,
                    calls[i].message, calls[i].details)]

\* the buffer after log() has appended each entry in turn
\* the capacity of the logger the parsers and dispatchers write to:
\* mcp_logger = MCPLogger(max_logs=200)
mcp_logger_max_logs == 200

RECURSIVE AppendAll(_, _)
AppendAll(buf, entries) ==
    IF entries = <<>> THEN buf
    ELSE AppendAll(AppendLog(buf, Head(entries), mcp_logger_max_logs),
                   Tail(entries))

(***************************************************************************)
(* mcp_server_real.py: the chart handlers.  The AI service is an input:    *)
(* ai.mode says what the parsing request meets ("unavailable": no client   *)
(* or key, "api_error": the request raises, "no_json": a reply without a   *)
(* JSON object, "bad_json": a reply json.loads rejects, "non_object": JSON *)
(* that is no object, "object": a JSON object, ai.reply, "fenced_object":  *)
(* the same inside a json code fence), ai.code what the                    *)
(* code-generation request meets (a reply, "text" or "bare", or "error").  *)
(***************************************************************************)
\* chart_result["method"] of generate_chart_code_with_ai and of
\* generate_multi_author_chart_code
ChartCodeMethod(ai) ==
    IF ai.mode = "unavailable" THEN "fallback"
    ELSE IF ai.code = "error" THEN "fallback_after_ai_error"
    ELSE "ai_generated"

\* a handler result: known is <<l>> when the message lists the authors l
\* having numeric data, data_count and authors are <<>> when absent
ChartResult(success, message, method, data_count, authors, known) ==
    [success |-> success, message |-> message, method |-> method,
     data_count |-> data_count, authors |-> authors, known |-> known,
     chart_code |-> <<>>]

\* Chart.js code is held as the sequence of its statements: "comment" a
\* // line, "dispose" the statement if (window.myChart)
\* { window.myChart.destroy(); }, "get_context" the declaration of ctx,
\* "construct" the statement window.myChart = new Chart(ctx, {...}).
\* ChartGenerator.create_chart_js_code
create_chart_js_code(author_data, chart_type) ==
    IF author_data = <<>> THEN <<>>
    ELSE <<"comment", "dispose", "get_context", "construct">>

\* RealMCPServer._create_multi_author_chart_fallback, either branch
_create_multi_author_chart_fallback(author_data, chart_type, author_names) ==
    <<"dispose", "get_context", "construct">>

\* The reply of the AI service to a code-generation request, as its lines
\* ("fence_javascript", "fence_js" and "fence" are the three markers of a
\* code block, the triple backquote with the tag javascript, js or none):
\* ai.code = "text" is a reply that follows the prompt's template in a
\* javascript fence, "bare" one that is the unfenced code of a chart
\* constructed without the disposal.
CodeReply(code) ==
    IF code = "text"
    THEN <<"fence_javascript", "comment", "dispose", "comment", "get_context",
           "construct", "fence">>
    ELSE <<"get_context", "construct">>

Fences == {"fence_javascript", "fence_js", "fence"}

\* str.find of one of the markers from position from on: the position, or
\* 0 when there is none
FindFrom(text, markers, from) ==
    IF \E i \in from..Len(text) : text[i] \in markers
    THEN SetMin({i \in from..Len(text) : text[i] \in markers})
    ELSE 0

\* the extraction of the code from the reply (lines 463-477 and 574-588):
\* what stands between the first fence of the kind found and the next
\* fence, or the whole reply when it has no fence
extract_code(ai_response) ==
    LET opener == IF FindFrom(ai_response, {"fence_javascript"}, 1) > 0
                  THEN {"fence_javascript"}
                  ELSE IF FindFrom(ai_response, {"fence_js"}, 1) > 0
                  THEN {"fence_js"}
                  ELSE Fences
        code_start == FindFrom(ai_response, opener, 1)
        code_end == FindFrom(ai_response, Fences, code_start + 1)
    IN IF code_start = 0 THEN ai_response
       ELSE IF code_end = 0
       THEN SubSeq(ai_response, code_start + 1, Len(ai_response) - 1)
       ELSE SubSeq(ai_response, code_start + 1, code_end - 1)

\* chart_result["chart_code"] of generate_chart_code_with_ai
generate_chart_code_with_ai(ai, author_data, chart_type) ==
    IF ai.mode = "unavailable" \/ ai.code = "error"
    THEN create_chart_js_code(author_data, chart_type)
    ELSE extract_code(CodeReply(ai.code))

\* chart_result["chart_code"] of generate_multi_author_chart_code
generate_multi_author_chart_code(ai, author_data, chart_type, author_names) ==
    IF ai.mode = "unavailable" \/ ai.code = "error"
    THEN _create_multi_author_chart_fallback(author_data, chart_type,
                                             author_names)
    ELSE extract_code(CodeReply(ai.code))

\* What a handler did: its result, the store operations it performed and
\* the log() calls it made, in order.
Did(res, ops, calls) == [result |-> res, ops |-> ops, calls |-> calls]

generate_author_chart(st, ai, author_name, chart_type) ==
    LET call == log_api_call("generate_author_chart")
        author_posts == get_author_numeric_data(st, author_name)
        method == ChartCodeMethod(ai)
    IN IF ~validate_chart_type(chart_type)
       THEN Did(ChartResult(FALSE, "unsupported_chart_type", "validation_error",
                            <<>>, <<>>, <<>>),
                <<>>, <<call>>)
       ELSE IF author_posts = <<>>
       THEN Did(ChartResult(FALSE, "no_data", "no_data_found", <<>>, <<>>,
                            <<get_available_authors(st)>>),
                <<"find_by_author", "distinct_authors_with_numeric_value">>,
                <<call>>)
       ELSE Did([ChartResult(TRUE, "chart", method, <<Len(author_posts)>>,
                             <<>>, <<>>)
                   EXCEPT !.chart_code =
                     <<generate_chart_code_with_ai(ai, author_posts, chart_type)>>],
                <<"find_by_author">>,
                <<call,
                  log_chart_generation(chart_type, <<author_name>>, TRUE, method),
                  log_api_response("generate_author_chart", TRUE)>>)

\* the loop of generate_multi_author_chart: all_author_data and
\* valid_authors after the names have been gone through in order
RECURSIVE CollectAuthorData(_, _)
CollectAuthorData(st, author_names) ==
    IF author_names = <<>>
    THEN [all_author_data |-> <<>>, valid_authors |-> <<>>]
    ELSE LET author_posts == get_author_numeric_data(st, Head(author_names))
             rest == CollectAuthorData(st, Tail(author_names))
         IN IF author_posts # <<>>
            THEN [all_author_data |-> author_posts \o rest.all_author_data,
                  valid_authors |-> <<Head(author_names)>> \o rest.valid_authors]
            ELSE rest

generate_multi_author_chart(st, ai, author_names, chart_type) ==
    LET call == log_api_call("generate_multi_author_chart")
        got == CollectAuthorData(st, author_names)
        reads == [i \in 1..Len(author_names) |-> "find_by_author"]
        method == ChartCodeMethod(ai)
    IN IF author_names = <<>>
       THEN Did(ChartResult(FALSE, "no_author_names", "validation_error",
                            <<>>, <<>>, <<>>),
                <<>>, <<call>>)
       ELSE IF ~validate_chart_type(chart_type)
       THEN Did(ChartResult(FALSE, "unsupported_chart_type", "validation_error",
                            <<>>, <<>>, <<>>),
                <<>>, <<call>>)
       ELSE IF got.all_author_data = <<>>
       THEN Did(ChartResult(FALSE, "no_data", "no_data_found", <<>>, <<>>,
                            <<get_available_authors(st)>>),
                reads \o <<"distinct_authors_with_numeric_value">>,
                <<call>>)
       ELSE Did([ChartResult(TRUE, "chart", method,
                             <<Len(got.all_author_data)>>,
                             <<got.valid_authors>>, <<>>)
                   EXCEPT !.chart_code =
                     <<generate_multi_author_chart_code(ai, got.all_author_data,
                                                        chart_type,
                                                        got.valid_authors)>>],
                reads,
                <<call,
                  log_chart_generation(chart_type, got.valid_authors, TRUE, method),
                  log_api_response("generate_multi_author_chart", TRUE)>>)

\* parse_chart_command_with_ai, the intent built from the reply's JSON
\* object (lines 226-252): author_names is used when is_multi_author and
\* author_names are both truthy, else author_name
ChartIntentFromReply(reply) ==
    LET multi == reply.is_multi_author /\ NamesTruthy(reply.author_names)
        single == ~multi /\ reply.author_name # <<>>
    IN [ author_names |-> IF multi THEN reply.author_names
                          ELSE IF single THEN NameList(<<reply.author_name>>)
                          ELSE NoNames,
         author_name |-> IF single THEN reply.author_name ELSE <<>>,
         chart_type |-> reply.chart_type,
         valid |-> reply.valid,
         confidence |-> reply.confidence,
         method |-> "ai_powered",
         is_multi_author |-> reply.is_multi_author ]

\* What a parser did: the intent it returned and the log() calls it made.
Parsed(intent, calls) == [intent |-> intent, calls |-> calls]

\* The parser returned no intent: the exception exc went on to its caller.
Raised(exc, calls) ==
    Parsed([valid |-> FALSE, method |-> "raised", exception |-> exc], calls)

\* the classes an exception is an instance of (JSONDecodeError derives from
\* ValueError; the client's APIError, like the others, from Exception)
Bases(exc) ==
    IF exc = "JSONDecodeError" THEN {"JSONDecodeError", "ValueError", "Exception"}
    ELSE {exc, "Exception"}

\* except (classes): the handler takes the exception
Catches(classes, exc) == Bases(exc) \cap classes # {}

\* The text of a reply that holds one well-formed JSON object, as its
\* parts: "{" and "}" the object's braces, "members" what stands between
\* them, "fence_json" the marker of a json code block.  The object is bare
\* (ai.mode = "object") or enclosed in a json fence ("fenced_object").
ReplyText(ai) ==
    IF ai.mode = "fenced_object"
    THEN <<"fence_json", "{", "members", "}", "fence">>
    ELSE <<"{", "members", "}">>

\* str.rfind of the marker: the last position, or 0
RFind(text, marker) ==
    IF \E i \in 1..Len(text) : text[i] = marker
    THEN SetMax({i \in 1..Len(text) : text[i] = marker})
    ELSE 0

\* json_content of parse_chart_command_with_ai (lines 211-221): <<text>>,
\* or <<>> when no JSON is found and ValueError is raised
json_content(ai_response) ==
    LET json_start == FindFrom(ai_response, {"fence_json"}, 1)
        json_end == FindFrom(ai_response, Fences \cup {"fence_json"},
                             json_start + 1)
    IN IF json_start > 0
       THEN IF json_end = 0
            THEN <<SubSeq(ai_response, json_start + 1, Len(ai_response) - 1)>>
            ELSE <<SubSeq(ai_response, json_start + 1, json_end - 1)>>
       ELSE IF FindFrom(ai_response, {"{"}, 1) > 0 /\ RFind(ai_response, "}") > 0
       THEN <<SubSeq(ai_response, FindFrom(ai_response, {"{"}, 1),
                     RFind(ai_response, "}"))>>
       ELSE <<>>

\* json.loads(text) returns the object: the text is the object and nothing
\* else (JSONDecodeError otherwise)
json_loads(text) == text = <<"{", "members", "}">>

\* the reply holds an object and parse_chart_command_with_ai decodes it
chart_decodes(ai) ==
    /\ ai.mode \in {"object", "fenced_object"}
    /\ json_content(ReplyText(ai)) # <<>>
    /\ json_loads(json_content(ReplyText(ai))[1])

\* the reply holds an object and _parse_post_command_with_ai decodes it:
\* json.loads(response_text) of the whole reply (line 980)
post_decodes(ai) ==
    /\ ai.mode \in {"object", "fenced_object"}
    /\ json_loads(ReplyText(ai))

\* mcp_logger.log_parsing: f"{confidence:.2f}" raises ValueError for a str
\* and TypeError for None; <<>> when the confidence is a number
log_parsing_raises(ai) ==
    IF ai.mode = "str_confidence" THEN <<"ValueError">>
    ELSE IF ai.mode = "null_confidence" THEN <<"TypeError">>
    ELSE <<>>

\* the exception the AI attempt of parse_chart_command_with_ai (lines
\* 196-261) ends with, <<>> when it ends with the return of line 261
chart_attempt_raises(ai) ==
    IF ai.mode = "api_error" THEN <<"APIError">>
    ELSE IF ai.mode = "no_json" THEN <<"ValueError">>
    ELSE IF ai.mode = "bad_json" THEN <<"JSONDecodeError">>
    ELSE IF ai.mode = "non_object" THEN <<"AttributeError">>
    ELSE IF ai.mode \in {"object", "fenced_object"} /\ ~chart_decodes(ai)
    THEN IF json_content(ReplyText(ai)) = <<>> THEN <<"ValueError">>
         ELSE <<"JSONDecodeError">>
    ELSE log_parsing_raises(ai)

\* the same without the outer handler "except Exception" (lines 275-284)
parse_chart_command_with_ai_inner_handler_only(command, ai) ==
    LET call == log_api_call("parse_chart_command")
        failed == <<call, log_error("parsing"),
                    log_api_response("parse_chart_command", FALSE)>>
        exc == chart_attempt_raises(ai)
    IN IF ai.mode = "unavailable"
       THEN Parsed(parse_chart_command_fallback(command),
                   <<call, log_mcp_warning("parsing")>>)
       ELSE IF exc = <<>>
       THEN LET res == ChartIntentFromReply(ai.reply)
            IN Parsed(res, <<call, log_parsing(res),
                             log_api_response("parse_chart_command", TRUE)>>)
       ELSE IF Catches({"JSONDecodeError", "KeyError", "ValueError"}, exc[1])
       THEN Parsed(parse_chart_command_fallback(command), failed)
       ELSE Raised(exc[1], <<call>>)

\* RealMCPServer.parse_chart_command_with_ai (module-level
\* parse_chart_command)
parse_chart_command_with_ai(command, ai) ==
    LET call == log_api_call("parse_chart_command")
        failed == <<call, log_error("parsing"),
                    log_api_response("parse_chart_command", FALSE)>>
        exc == chart_attempt_raises(ai)
    IN IF ai.mode = "unavailable"
       THEN Parsed(parse_chart_command_fallback(command),
                   <<call, log_mcp_warning("parsing")>>)
       ELSE IF exc = <<>>
       THEN LET res == ChartIntentFromReply(ai.reply)
            IN Parsed(res, <<call, log_parsing(res),
                             log_api_response("parse_chart_command", TRUE)>>)
       ELSE IF Catches({"JSONDecodeError", "KeyError", "ValueError"}, exc[1])
       THEN Parsed(parse_chart_command_fallback(command), failed)
       ELSE IF Catches({"Exception"}, exc[1])
       THEN Parsed(parse_chart_command_fallback(command), failed)
       ELSE Raised(exc[1], <<call>>)

(***************************************************************************)
(* app.py: create_chart                                                    *)
(***************************************************************************)
\* a handler invocation
Invoked(name, authors) == [name |-> name, authors |-> authors]

\* JSONResponse(status_code, content)
JSONResponse(status_code, content) ==
    [status_code |-> status_code, content |-> content]

\* What a request did: the intent parsed (NoIntent when it was not parsed),
\* the response, the handlers invoked, the store operations and the log()
\* calls.
Served(intent, resp, invoked, ops, calls) ==
    [intent |-> intent, response |-> resp, handlers |-> invoked,
     ops |-> ops, calls |-> calls]

\* create_chart from the parsed intent on (lines 238-299); an exception of
\* the parser is answered by the handler of lines 292-299
dispatch_chart(st, ai, p) ==
    LET all_authors == get_available_authors(st)
        hint == <<"distinct_authors_with_numeric_value">>
        multi(names) == generate_multi_author_chart(st, ai, names, p.intent.chart_type)
        single == generate_author_chart(st, ai, p.intent.author_name,
                                        p.intent.chart_type)
    IN IF p.intent.method = "raised"
       THEN Served(p.intent,
                   JSONResponse(500, ChartResult(FALSE, "server_error", "none",
                                                 <<>>, <<>>, <<>>)),
                   <<>>, <<>>, p.calls)
       ELSE IF ~p.intent.valid
       THEN Served(p.intent,
                   JSONResponse(400, ChartResult(FALSE, "parse_failed", "none",
                                                 <<>>, <<>>, <<all_authors>>)),
                   <<>>, hint, p.calls)
       ELSE IF p.intent.is_multi_author /\ NamesTruthy(p.intent.author_names)
       THEN IF p.intent.author_names = ALL_AUTHORS
            THEN IF all_authors = <<>>
                 THEN Served(p.intent,
                             JSONResponse(400, ChartResult(FALSE, "no_authors",
                                              "none", <<>>, <<>>, <<>>)),
                             <<>>, hint, p.calls)
                 ELSE Served(p.intent,
                             JSONResponse(200, multi(all_authors).result),
                             <<Invoked("generate_multi_author_chart", all_authors)>>,
                             hint \o multi(all_authors).ops,
                             p.calls \o multi(all_authors).calls)
            ELSE Served(p.intent,
                        JSONResponse(200, multi(p.intent.author_names.names).result),
                        <<Invoked("generate_multi_author_chart",
                                  p.intent.author_names.names)>>,
                        multi(p.intent.author_names.names).ops,
                        p.calls \o multi(p.intent.author_names.names).calls)
       ELSE Served(p.intent, JSONResponse(200, single.result),
                   <<Invoked("generate_author_chart", <<p.intent.author_name>>)>>,
                   single.ops, p.calls \o single.calls)

\* create_chart before the intent is parsed (lines 222-236): an empty
\* command is answered at once, p is what the parser did otherwise
serve_chart(st, command, ai, p) ==
    IF strip(command) = <<>>
    THEN Served(NoIntent,
                JSONResponse(400, ChartResult(FALSE, "empty_command", "none",
                                              <<>>, <<>>, <<>>)),
                <<>>, <<>>, <<>>)
    ELSE dispatch_chart(st, ai, p)

(***************************************************************************)
(* Python re, for the patterns of _parse_post_command_fallback.  A pattern *)
(* is a sequence of nodes; matching backtracks in re's priority order      *)
(* (an alternation tries its branches left to right, a greedy repeat tries *)
(* one more round before the rest, a lazy repeat the rest first), and      *)
(* re.search takes the leftmost start that matches.                        *)
(***************************************************************************)
\* a character of the set cs
Cls(cs) == [t |-> "class", neg |-> FALSE, cs |-> cs]

\* a character not of the set cs
NotCls(cs) == [t |-> "class", neg |-> TRUE, cs |-> cs]

\* the literal text lit
Lit(lit) == [k \in 1..Len(lit) |-> Cls({lit[k]})]

\* (?:a|b|...), alts a sequence of patterns
Alt(alts) == <<[t |-> "alt", alts |-> alts]>>

\* sub*, sub*?
Star(sub) == <<[t |-> "star", sub |-> sub, greedy |-> TRUE]>>
LazyStar(sub) == <<[t |-> "star", sub |-> sub, greedy |-> FALSE]>>

\* sub+, sub+?
Plus(sub) == sub \o Star(sub)
LazyPlus(sub) == sub \o LazyStar(sub)

\* sub?
Opt(sub) == <<[t |-> "opt", sub |-> sub]>>

\* (sub), the k-th group
Group(k, sub) == <<[t |-> "open", k |-> k]>> \o sub \o <<[t |-> "close", k |-> k]>>

\* $
Eos == <<[t |-> "eos"]>>

\* \s, \d, ., ['"], [^'"], [\d.]
Space == Cls({" "})
Digits == {"0", "1", "2", "3"}
Digit == Cls(Digits)
Dot == NotCls({"\n"})
Quote == Cls({"sq", "dq"})
NotQuote == NotCls({"sq", "dq"})
DigitOrPoint == Cls(Digits \cup {"."})

\* \s*
Spaces == Star(<<Space>>)

NoGroups == [k \in 1..3 |-> <<0, 0>>]

ReFail == [ok |-> FALSE, end |-> 0, caps |-> NoGroups]

RECURSIVE ReMatches(_, _, _, _)
RECURSIVE ReAlt(_, _, _, _, _)
\* the ways to match the pattern re at position i, in priority order
ReMatches(s, re, i, caps) ==
    IF Len(re) = 0 THEN <<[ok |-> TRUE, end |-> i, caps |-> caps]>>
    ELSE CASE Head(re).t = "class" ->
                IF i <= Len(s) /\ ((s[i] \in Head(re).cs) # Head(re).neg)
                THEN ReMatches(s, Tail(re), i + 1, caps) ELSE <<>>
           [] Head(re).t = "eos" ->
                IF i = Len(s) + 1 THEN ReMatches(s, Tail(re), i, caps) ELSE <<>>
           [] Head(re).t = "open" ->
                ReMatches(s, Tail(re), i, [caps EXCEPT ![Head(re).k] = <<i, 0>>])
           [] Head(re).t = "close" ->
                ReMatches(s, Tail(re), i,
                          [caps EXCEPT ![Head(re).k] = <<caps[Head(re).k][1], i>>])
           [] Head(re).t = "alt" -> ReAlt(s, Head(re).alts, Tail(re), i, caps)
           [] Head(re).t = "opt" ->
                ReMatches(s, Head(re).sub \o Tail(re), i, caps)
                  \o ReMatches(s, Tail(re), i, caps)
           [] Head(re).t = "star" ->
                IF Head(re).greedy
                THEN ReMatches(s, Head(re).sub \o re, i, caps)
                       \o ReMatches(s, Tail(re), i, caps)
                ELSE ReMatches(s, Tail(re), i, caps)
                       \o ReMatches(s, Head(re).sub \o re, i, caps)

ReAlt(s, alts, rest, i, caps) ==
    IF Len(alts) = 0 THEN <<>>
    ELSE ReMatches(s, Head(alts) \o rest, i, caps)
           \o ReAlt(s, Tail(alts), rest, i, caps)

\* re.search from position i on: the first match at the leftmost start
RECURSIVE SearchFrom(_, _, _)
SearchFrom(re, s, i) ==
    IF i > Len(s) + 1 THEN <<>>
    ELSE ReMatches(s, re, i, NoGroups) \o SearchFrom(re, s, i + 1)

\* re.search(re, s): the match found, or ReFail
search(re, s) == Head(SearchFrom(re, s, 1) \o <<ReFail>>)

\* match.group(k)
group(s, m, k) == SubSeq(s, m.caps[k][1], m.caps[k][2] - 1)

(***************************************************************************)
(* mcp_server_real.py: RealMCPServer._parse_post_command_fallback.  More   *)
(* Hangul syllables, named as above: "eu ro" U+C73C U+B85C, "sae" U+C0C8,  *)
(* "ge si geul" U+AC8C U+C2DC U+AE00, "jag seong" U+C791 U+C131, "chu ga"  *)
(* U+CD94 U+AC00, "saeng seong" U+C0DD U+C131, "neun" U+B294, "eun"        *)
(* U+C740, "je mog" U+C81C U+BAA9, "nae yong" U+B0B4 U+C6A9, "beon"        *)
(* U+BC88, "eul" U+C744, "reul" U+B97C, "ba kkwo" U+BC14 U+BFD4, "su       *)
(* jeong" U+C218 U+C815, "byeon gyeong" U+BCC0 U+ACBD, "sag je" U+C0AD     *)
(* U+C81C, "mog rog" U+BAA9 U+B85D, "ri seu teu" U+B9AC U+C2A4 U+D2B8,     *)
(* "bo yeo" U+BCF4 U+C5EC, "pyo si" U+D45C U+C2DC.                         *)
(***************************************************************************)
GE_SI_GEUL == Lit(<<"ge", "si", "geul">>)
EuRoOrRo == Alt(<<Lit(<<"eu", "ro">>), Lit(<<"ro">>)>>)
AddVerb == Alt(<<Lit(<<"chu", "ga">>), Lit(<<"saeng", "seong">>),
                 Lit(<<"jag", "seong">>)>>)
FieldName == Alt(<<Lit(<<"je", "mog">>), Lit(<<"nae", "yong">>),
                   Lit(JAG_SEONG_JA)>>)
ChangeVerb == Alt(<<Lit(<<"ba", "kkwo">>), Lit(<<"su", "jeong">>),
                    Lit(<<"byeon", "gyeong">>)>>)
SAG_JE == Lit(<<"sag", "je">>)
\* (?:\s*:|\s*eun|\s*neun)?
Topic == Opt(Alt(<<Spaces \o Lit(<<":">>), Spaces \o Lit(<<"eun">>),
                   Spaces \o Lit(<<"neun">>)>>))

create_patterns ==
    << Group(1, LazyPlus(<<Dot>>)) \o EuRoOrRo \o Spaces
         \o Opt(Lit(<<"sae">>) \o Spaces) \o GE_SI_GEUL \o Spaces
         \o Lit(<<"jag", "seong">>),
       Group(1, LazyPlus(<<Dot>>)) \o Spaces \o GE_SI_GEUL \o Spaces \o AddVerb,
       Lit(<<"sae">>) \o Spaces \o GE_SI_GEUL \o LazyStar(<<Dot>>)
         \o Lit(JAG_SEONG_JA)
         \o Opt(Alt(<<Spaces \o Lit(<<":">>), Spaces \o Lit(<<"neun">>)>>))
         \o Spaces \o Group(1, LazyPlus(<<Dot>>)) \o Alt(<<<<Space>>, Eos>>),
       GE_SI_GEUL \o Spaces \o AddVerb \o LazyStar(<<Dot>>)
         \o Group(1, LazyPlus(<<Dot>>)) \o EuRoOrRo >>

\* title_patterns and content_patterns: the field's name, then what ends
\* an unquoted value
field_patterns(name, stop) ==
    << Lit(name) \o Topic \o Spaces \o <<Quote>>
         \o Group(1, Plus(<<NotQuote>>)) \o <<Quote>>,
       Lit(name) \o Topic \o Spaces \o Group(1, LazyPlus(<<Dot>>))
         \o Alt(<<Spaces \o Lit(<<",">>), Spaces \o Lit(stop), Spaces \o Eos>>) >>

title_patterns == field_patterns(<<"je", "mog">>, <<"nae", "yong">>)

content_patterns == field_patterns(<<"nae", "yong">>, <<"su", "chi">>)

numeric_pattern ==
    Lit(<<"su", "chi">>) \o Opt(Lit(<<"gabs">>)) \o Topic \o Spaces
      \o Group(1, Plus(<<DigitOrPoint>>))

update_patterns ==
    << Group(1, Plus(<<Digit>>)) \o Lit(<<"beon">>) \o Spaces \o GE_SI_GEUL
         \o LazyStar(<<Dot>>) \o Group(2, FieldName)
         \o Opt(Alt(<<Spaces \o Lit(<<"eul">>), Spaces \o Lit(<<"reul">>)>>))
         \o Spaces \o Opt(<<Quote>>) \o Group(3, Plus(<<NotQuote>>))
         \o Opt(<<Quote>>) \o EuRoOrRo \o Spaces \o ChangeVerb,
       Group(1, Plus(<<Digit>>)) \o Lit(<<"beon">>) \o LazyStar(<<Dot>>)
         \o Group(2, FieldName) \o Spaces
         \o Alt(<<Lit(<<"su", "jeong">>), Lit(<<"byeon", "gyeong">>),
                  Lit(<<"ba", "kkwo">>)>>)
         \o LazyStar(<<Dot>>) \o Opt(<<Quote>>)
         \o Group(3, Plus(<<NotQuote>>)) \o Opt(<<Quote>>) >>

delete_patterns ==
    << Group(1, Plus(<<Digit>>)) \o Lit(<<"beon">>) \o Spaces \o GE_SI_GEUL
         \o Spaces \o SAG_JE,
       GE_SI_GEUL \o Spaces \o Group(1, Plus(<<Digit>>)) \o Spaces \o SAG_JE,
       Group(1, LazyPlus(<<Dot>>)) \o Opt(Lit(UI)) \o Spaces
         \o Opt(Lit(<<"mo", "deun">>) \o Spaces) \o GE_SI_GEUL \o Spaces
         \o Opt(Lit(<<"mo", "du">>) \o Spaces) \o SAG_JE >>

list_patterns ==
    << GE_SI_GEUL \o Spaces
         \o Alt(<<Lit(<<"mog", "rog">>), Lit(<<"ri", "seu", "teu">>)>>)
         \o Spaces \o Alt(<<Lit(<<"bo", "yeo">>), Lit(<<"pyo", "si">>)>>),
       Group(1, LazyPlus(<<Dot>>)) \o Opt(Lit(UI)) \o Spaces \o GE_SI_GEUL
         \o Spaces
         \o Alt(<<Lit(<<"bo", "yeo">>), Lit(<<"pyo", "si">>),
                  Lit(<<"mog", "rog">>)>>) >>

\* the index of the first pattern of the list that is found in s, or 0
RECURSIVE FirstFound(_, _, _)
FirstFound(patterns, s, k) ==
    IF k > Len(patterns) THEN 0
    ELSE IF search(patterns[k], s).ok THEN k
    ELSE FirstFound(patterns, s, k + 1)

\* group 1, stripped, of the first pattern of the list found in s:
\* <<text>>, or <<>> (None) when none is found
FirstGroup(patterns, s) ==
    LET k == FirstFound(patterns, s, 1)
    IN IF k = 0 THEN <<>> ELSE <<strip(group(s, search(patterns[k], s), 1))>>

\* int(text) of a run of digits
RECURSIVE int(_)
int(digits) ==
    IF digits = <<>> THEN 0
    ELSE 10 * int(SubSeq(digits, 1, Len(digits) - 1))
           + (CHOOSE d \in 0..9 : ToString(d) = digits[Len(digits)])

\* A float, m / 10^e with no trailing zero in the fraction.
RECURSIVE Float(_, _)
Float(m, e) == IF e > 0 /\ m % 10 = 0 THEN Float(m \div 10, e - 1)
               ELSE [m |-> m, e |-> e]

\* float(text) of a run of digits and points: <<value>>, or <<>> when it
\* raises ValueError (no digit, or more than one point)
float(text) ==
    LET points == {i \in 1..Len(text) : text[i] = "."}
        digits == SelectSeq(text, LAMBDA c : c # ".")
    IN IF Cardinality(points) > 1 \/ digits = <<>> THEN <<>>
       ELSE IF points = {} THEN <<Float(int(digits), 0)>>
       ELSE <<Float(int(digits), Len(text) - SetMax(points))>>

PostFallbackConfidence == 70

\* A post-management intent.  A value that may be None is <<>> for None
\* and <<v>> for the value v; action is a str or None.
PostIntent(action, valid, method) ==
    [action |-> action, post_id |-> <<>>, author |-> <<>>, title |-> <<>>,
     content |-> <<>>, numeric_value |-> <<>>, category |-> <<>>,
     field_to_update |-> <<>>, new_value |-> <<>>, filter_author |-> <<>>,
     valid |-> valid, confidence |-> PostFallbackConfidence, method |-> method]

JEON_CHE == <<"jeon", "che">>
MO_DEUN == <<"mo", "deun">>

\* the mutant of parse_post_command_fallback: the groups tried in the
\* order list, delete, update, create
parse_post_command_fallback_list_first(command) ==
    LET c == FirstFound(create_patterns, command, 1)
        u == FirstFound(update_patterns, command, 1)
        d == FirstFound(delete_patterns, command, 1)
        l == FirstFound(list_patterns, command, 1)
        um == search(update_patterns[u], command)
        dm == search(delete_patterns[d], command)
        lm == search(list_patterns[l], command)
        nm == search(numeric_pattern, command)
        found(action) == PostIntent(action, TRUE, "regex_fallback")
    IN IF l > 0
       THEN IF l = 2 /\ strip(group(command, lm, 1)) \notin {JEON_CHE, MO_DEUN}
            THEN [found("list") EXCEPT
                    !.filter_author = <<strip(group(command, lm, 1))>>]
            ELSE found("list")
       ELSE IF d > 0
       THEN IF d < 3
            THEN [found("delete") EXCEPT
                    !.post_id = <<int(group(command, dm, 1))>>]
            ELSE [found("delete") EXCEPT
                    !.filter_author = <<strip(group(command, dm, 1))>>]
       ELSE IF u > 0
       THEN [found("update") EXCEPT
               !.post_id = <<int(group(command, um, 1))>>,
               !.field_to_update = <<group(command, um, 2)>>,
               !.new_value = <<strip(group(command, um, 3))>>]
       ELSE IF c > 0
       THEN [found("create") EXCEPT
               !.author = <<strip(group(command,
                                        search(create_patterns[c], command), 1))>>,
               !.title = FirstGroup(title_patterns, command),
               !.content = FirstGroup(content_patterns, command),
               !.numeric_value =
                   IF nm.ok THEN float(group(command, nm, 1)) ELSE <<>>]
       ELSE PostIntent(None, FALSE, "regex_fallback")

\* _parse_post_command_fallback(command): the returned dict (explanation
\* and original_command left out)
parse_post_command_fallback(command) ==
    LET c == FirstFound(create_patterns, command, 1)
        u == FirstFound(update_patterns, command, 1)
        d == FirstFound(delete_patterns, command, 1)
        l == FirstFound(list_patterns, command, 1)
        um == search(update_patterns[u], command)
        dm == search(delete_patterns[d], command)
        lm == search(list_patterns[l], command)
        nm == search(numeric_pattern, command)
        found(action) == PostIntent(action, TRUE, "regex_fallback")
    IN IF c > 0
       THEN [found("create") EXCEPT
               !.author = <<strip(group(command,
                                        search(create_patterns[c], command), 1))>>,
               !.title = FirstGroup(title_patterns, command),
               !.content = FirstGroup(content_patterns, command),
               !.numeric_value =
                   IF nm.ok THEN float(group(command, nm, 1)) ELSE <<>>]
       ELSE IF u > 0
       THEN [found("update") EXCEPT
               !.post_id = <<int(group(command, um, 1))>>,
               !.field_to_update = <<group(command, um, 2)>>,
               !.new_value = <<strip(group(command, um, 3))>>]
       ELSE IF d > 0
       THEN IF d < 3
            THEN [found("delete") EXCEPT
                    !.post_id = <<int(group(command, dm, 1))>>]
            ELSE [found("delete") EXCEPT
                    !.filter_author = <<strip(group(command, dm, 1))>>]
       ELSE IF l > 0
       THEN IF l = 2 /\ strip(group(command, lm, 1)) \notin {JEON_CHE, MO_DEUN}
            THEN [found("list") EXCEPT
                    !.filter_author = <<strip(group(command, lm, 1))>>]
            ELSE found("list")
       ELSE PostIntent(None, FALSE, "regex_fallback")

\* the same, the fallback's confidence kept
error_intent_confident(e) ==
    [action |-> None, valid |-> FALSE, confidence |-> PostFallbackConfidence,
     method |-> "error"]

\* the dict parse_post_management_command returns from its handler
\* "except Exception as e" (lines 921-928)
error_intent(e) ==
    [action |-> None, valid |-> FALSE, confidence |-> 0, method |-> "error"]

\* the same, every result of an available AI service marked "ai_powered"
parse_post_management_command_marked(command, ai) ==
    LET call == log_api_call("parse_post_management_command")
        res == IF ai.mode = "unavailable"
               THEN parse_post_command_fallback(command)
               ELSE IF post_decodes(ai)
               THEN [ai.reply EXCEPT !.method = "ai_powered"]
               ELSE [parse_post_command_fallback(command) EXCEPT
                       !.method = "ai_powered"]
        done == <<log_parsing(res),
                  log_api_response("parse_post_management_command", TRUE)>>
        exc == log_parsing_raises(ai)
    IN IF ai.mode = "unavailable"
       THEN Parsed(res, <<call, LogCall(RawLevel("warning"), "parsing",
                                        "warning", NoDetails)>> \o done)
       ELSE IF ai.mode \in {"api_error", "non_object"}
       THEN Parsed(res, <<call, log_error("parsing")>> \o done)
       ELSE IF exc = <<>>
       THEN Parsed(res, <<call>> \o done)
       ELSE Parsed(error_intent(exc[1]),
                   <<call, log_parsing(error_intent(exc[1])),
                     log_error("parsing")>>)

\* _parse_post_command_with_ai and parse_post_management_command: the
\* reply's JSON object is returned as it is, with method "ai_powered";
\* every other outcome of the request falls back to the patterns.  The
\* unavailable branch logs its warning with the bare str "warning".  When
\* log_parsing raises on the result, the handler of lines 912-928 logs the
\* failure and returns the error intent.
parse_post_management_command(command, ai) ==
    LET call == log_api_call("parse_post_management_command")
        res == IF post_decodes(ai)
               THEN [ai.reply EXCEPT !.method = "ai_powered"]
               ELSE parse_post_command_fallback(command)
        done == <<log_parsing(res),
                  log_api_response("parse_post_management_command", TRUE)>>
        exc == log_parsing_raises(ai)
    IN IF ai.mode = "unavailable"
       THEN Parsed(res, <<call, LogCall(RawLevel("warning"), "parsing",
                                        "warning", NoDetails)>> \o done)
       ELSE IF ai.mode \in {"api_error", "non_object"}
       THEN Parsed(res, <<call, log_error("parsing")>> \o done)
       ELSE IF exc = <<>>
       THEN Parsed(res, <<call>> \o done)
       ELSE IF Catches({"Exception"}, exc[1])
       THEN Parsed(error_intent(exc[1]),
                   <<call, log_parsing(error_intent(exc[1])),
                     log_error("parsing")>>)
       ELSE Raised(exc[1], <<call>>)

(***************************************************************************)
(* app.py: manage_post_with_mcp and its handlers                           *)
(***************************************************************************)
\* not x, for a str or None
Falsy(x) == x = <<>> \/ x[1] = <<>>

\* a handler's result dict; status_code 200 when the dict has none
PostResult(success, message, status_code) ==
    [success |-> success, message |-> message, status_code |-> status_code]

\* What a post handler did: its result, the table afterwards and the store
\* operations it performed.
Handled(res, st, ops) == [result |-> res, store |-> st, ops |-> ops]

_handle_create_post(st, p) ==
    IF Falsy(p.author) \/ Falsy(p.title)
    THEN Handled(PostResult(FALSE, "author_and_title_required", 400), st, <<>>)
    ELSE Handled(PostResult(TRUE, "created", 200),
                 add_post(st, p.author[1], p.title[1], p.content,
                          p.numeric_value, p.category),
                 <<"insert">>)

\* the same, the new value written to the title whatever the field
UpdatedColumnsTitleOnly(existing_post, field_to_update, new_value) ==
    [title |-> new_value, content |-> existing_post.content,
     author |-> existing_post.author]

\* the columns _handle_update_post hands to update_post
UpdatedColumns(existing_post, field_to_update, new_value) ==
    IF field_to_update \in {<<"title">>, <<"je", "mog">>}
    THEN [title |-> new_value, content |-> existing_post.content,
          author |-> existing_post.author]
    ELSE IF field_to_update \in {<<"content">>, <<"nae", "yong">>}
    THEN [title |-> existing_post.title, content |-> <<new_value>>,
          author |-> existing_post.author]
    ELSE [title |-> existing_post.title, content |-> existing_post.content,
          author |-> new_value]

UpdatableFields ==
    {<<"title">>, <<"je", "mog">>, <<"content">>, <<"nae", "yong">>,
     <<"author">>, JAG_SEONG_JA}

\* the same, the field's name checked only after the columns are written
_handle_update_post_unchecked(st, p) ==
    LET found == get_post_by_id(st, p.post_id[1])
        cols == UpdatedColumns(found[1], p.field_to_update[1], p.new_value[1])
        written == update_post(st, p.post_id[1], cols.title, cols.content,
                               cols.author)
    IN IF p.post_id = <<>> \/ p.post_id[1] = 0 \/ Falsy(p.field_to_update)
          \/ p.new_value = <<>>
       THEN Handled(PostResult(FALSE, "update_arguments_required", 400), st, <<>>)
       ELSE IF found = <<>>
       THEN Handled(PostResult(FALSE, "post_not_found", 404), st, <<"find_by_id">>)
       ELSE IF p.field_to_update[1] \notin UpdatableFields
       THEN Handled(PostResult(FALSE, "unsupported_field", 400), written,
                    <<"find_by_id", "update">>)
       ELSE Handled(PostResult(TRUE, "updated", 200), written,
                    <<"find_by_id", "update">>)

_handle_update_post(st, p) ==
    LET found == get_post_by_id(st, p.post_id[1])
        cols == UpdatedColumns(found[1], p.field_to_update[1], p.new_value[1])
    IN IF p.post_id = <<>> \/ p.post_id[1] = 0 \/ Falsy(p.field_to_update)
          \/ p.new_value = <<>>
       THEN Handled(PostResult(FALSE, "update_arguments_required", 400), st, <<>>)
       ELSE IF found = <<>>
       THEN Handled(PostResult(FALSE, "post_not_found", 404), st, <<"find_by_id">>)
       ELSE IF p.field_to_update[1] \notin UpdatableFields
       THEN Handled(PostResult(FALSE, "unsupported_field", 400), st,
                    <<"find_by_id">>)
       ELSE Handled(PostResult(TRUE, "updated", 200),
                    update_post(st, p.post_id[1], cols.title, cols.content,
                                cols.author),
                    <<"find_by_id", "update">>)

\* What the persistence layer does with the request: db.fail_delete = k > 0
\* when the k-th delete_post call of the request fails (session.commit()
\* raises, the session is rolled back and the exception re-raised), 0 when
\* no call fails.
NoFault == [fail_delete |-> 0]

\* the loop of _handle_delete_post stopping after the first post
DeleteFirstOnly(st, posts, fail) ==
    IF posts = <<>>
    THEN [store |-> st, deleted_count |-> 0, raised |-> FALSE, calls |-> 0]
    ELSE IF fail = 1
    THEN [store |-> st, deleted_count |-> 0, raised |-> TRUE, calls |-> 1]
    ELSE [store |-> delete_post(st, Head(posts).id), deleted_count |-> 1,
          raised |-> FALSE, calls |-> 1]

\* the loop of _handle_delete_post: delete_post is called for each post in
\* turn, the fail-th call raising; the table afterwards, deleted_count,
\* whether a call raised and the number of calls made
RECURSIVE DeleteEach(_, _, _)
DeleteEach(st, posts, fail) ==
    IF posts = <<>>
    THEN [store |-> st, deleted_count |-> 0, raised |-> FALSE, calls |-> 0]
    ELSE IF fail = 1
    THEN [store |-> st, deleted_count |-> 0, raised |-> TRUE, calls |-> 1]
    ELSE LET rest == DeleteEach(delete_post(st, Head(posts).id), Tail(posts),
                                IF fail = 0 THEN 0 ELSE fail - 1)
             deleted == get_post_by_id(st, Head(posts).id) # <<>>
         IN [rest EXCEPT !.deleted_count = @ + (IF deleted THEN 1 ELSE 0),
                         !.calls = @ + 1]

_handle_delete_post(st, p, db) ==
    LET author_posts == get_posts_by_author(st, p.filter_author[1])
        loop == DeleteEach(st, author_posts, db.fail_delete)
        deletes == [i \in 1..loop.calls |-> "delete"]
    IN IF p.post_id # <<>> /\ p.post_id[1] # 0
       THEN IF get_post_by_id(st, p.post_id[1]) = <<>>
            THEN Handled(PostResult(FALSE, "post_not_found", 404), st,
                         <<"find_by_id">>)
            ELSE IF db.fail_delete = 1
            THEN Handled(PostResult(FALSE, "delete_error", 500), st,
                         <<"find_by_id", "delete">>)
            ELSE Handled(PostResult(TRUE, "deleted", 200),
                         delete_post(st, p.post_id[1]),
                         <<"find_by_id", "delete">>)
       ELSE IF ~Falsy(p.filter_author)
       THEN IF author_posts = <<>>
            THEN Handled(PostResult(FALSE, "author_has_no_posts", 404), st,
                         <<"find_by_author">>)
            ELSE IF loop.raised
            THEN Handled(PostResult(FALSE, "delete_error", 500), loop.store,
                         <<"find_by_author">> \o deletes)
            ELSE Handled([success |-> TRUE, message |-> "deleted",
                          status_code |-> 200,
                          deleted_count |-> loop.deleted_count],
                         loop.store, <<"find_by_author">> \o deletes)
       ELSE Handled(PostResult(FALSE, "delete_arguments_required", 400), st, <<>>)

_handle_list_posts(st, p) ==
    IF ~Falsy(p.filter_author)
    THEN Handled(PostResult(TRUE, "listed", 200), st, <<"find_by_author">>)
    ELSE Handled(PostResult(TRUE, "listed", 200), st, <<"find_all">>)

\* What a post-management request did: as Served, and the table afterwards.
ServedPost(intent, resp, invoked, ops, calls, st) ==
    [intent |-> intent, response |-> resp, handlers |-> invoked,
     ops |-> ops, calls |-> calls, store |-> st]

\* manage_post_with_mcp from the handler's return on (lines 348-365)
finish_post(p, name, h) ==
    ServedPost(p.intent, JSONResponse(h.result.status_code, h.result),
               <<Invoked(name, <<>>)>>, h.ops,
               p.calls \o <<log_system_event("post_management",
                              [action |-> p.intent.action,
                               success |-> h.result.success,
                               method |-> p.intent.method])>>,
               h.store)

\* the same without the check of valid, going by the action alone
dispatch_post_by_action(st, p, db) ==
    IF p.intent.action = "create"
    THEN finish_post(p, "_handle_create_post", _handle_create_post(st, p.intent))
    ELSE IF p.intent.action = "update"
    THEN finish_post(p, "_handle_update_post", _handle_update_post(st, p.intent))
    ELSE IF p.intent.action = "delete"
    THEN finish_post(p, "_handle_delete_post", _handle_delete_post(st, p.intent, db))
    ELSE finish_post(p, "_handle_list_posts", _handle_list_posts(st, p.intent))

\* manage_post_with_mcp from the parsed intent on (lines 309-346); p is
\* what the parser did, an exception of it being answered by the handler of
\* lines 367-375
dispatch_post(st, p, db) ==
    IF p.intent.method = "raised"
    THEN ServedPost(p.intent,
                    JSONResponse(500, PostResult(FALSE, "server_error", 500)),
                    <<>>, <<>>, p.calls \o <<log_error("system")>>, st)
    ELSE IF ~p.intent.valid
    THEN ServedPost(p.intent,
                    JSONResponse(400, PostResult(FALSE, "parse_failed", 400)),
                    <<>>, <<>>, p.calls, st)
    ELSE IF p.intent.action = "create"
    THEN finish_post(p, "_handle_create_post", _handle_create_post(st, p.intent))
    ELSE IF p.intent.action = "update"
    THEN finish_post(p, "_handle_update_post", _handle_update_post(st, p.intent))
    ELSE IF p.intent.action = "delete"
    THEN finish_post(p, "_handle_delete_post", _handle_delete_post(st, p.intent, db))
    ELSE IF p.intent.action = "list"
    THEN finish_post(p, "_handle_list_posts", _handle_list_posts(st, p.intent))
    ELSE ServedPost(p.intent,
                    JSONResponse(400, PostResult(FALSE, "unsupported_action", 400)),
                    <<>>, <<>>, p.calls, st)

(***************************************************************************)
(* One request served on a table: the inputs                               *)
(***************************************************************************)
\* what the AI service may do with the parsing request and with the
\* code-generation request
NoReply == [valid |-> FALSE]

\* the ways the parsing request does not end in an intent built from the
\* reply: the request raises; the reply holds no JSON object; it holds one
\* json.loads rejects; its JSON is no object; its JSON is an object whose
\* confidence is a str, or null
FailureModes == {"api_error", "no_json", "bad_json", "non_object",
                 "str_confidence", "null_confidence"}

AIs(replies, fenced, codes) ==
    {[mode |-> "unavailable", code |-> "none", reply |-> NoReply]}
    \cup {[mode |-> m, code |-> c, reply |-> NoReply] :
            m \in FailureModes, c \in codes}
    \cup {[mode |-> "object", code |-> c, reply |-> r] :
            r \in replies, c \in codes}
    \cup {[mode |-> "fenced_object", code |-> c, reply |-> r] :
            r \in fenced, c \in codes}

\* confidences the AI service may report outside 0.0-1.0, in hundredths
OutOfRange == {150, 0 - 50}

ChartReplies ==
    [ author_names : {NoNames, ALL_AUTHORS, NameList(<<A, B, A>>), NameList(<<B>>)},
      author_name : {<<>>, A},
      is_multi_author : BOOLEAN,
      chart_type : {"bar", "radar"},
      valid : BOOLEAN,
      confidence : {90} ]
    \cup [ author_names : {NoNames},
           author_name : {A},
           is_multi_author : {FALSE},
           chart_type : {"bar"},
           valid : {TRUE},
           confidence : OutOfRange ]

\* the replies also considered inside a json fence
FencedChartReplies ==
    { [ author_names |-> NameList(<<B>>), author_name |-> <<>>,
        is_multi_author |-> TRUE, chart_type |-> "bar", valid |-> v,
        confidence |-> 90 ] : v \in BOOLEAN }

ChartCommands ==
    { <<" ">>,
      <<"a", ",", "b">>,
      <<"a", ",", "a">>,
      <<"a", ",", "b", " ", "b", ",", "a">>,
      <<"mo", "du">>,
      <<"a", "nim">> }

AiIntent(action, valid) ==
    [PostIntent(action, valid, "ai_powered") EXCEPT !.confidence = 90]

PostIds == {<<>>, <<1>>, <<MaxRows + 1>>}

PostReplies ==
    UNION { { [AiIntent("update", v) EXCEPT !.post_id = id,
                 !.field_to_update = f, !.new_value = nv] :
                id \in PostIds,
                f \in {<<>>, <<<<"title">>>>, <<<<"content">>>>,
                       <<<<"author">>>>, <<<<"category">>>>},
                nv \in {<<>>, <<<<"n">>>>} }
            \cup { [AiIntent("create", v) EXCEPT !.author = a, !.title = t] :
                     a \in {<<>>, <<A>>}, t \in {<<>>, <<<<>>>>, <<<<"n">>>>} }
            \cup { [AiIntent("delete", v) EXCEPT !.post_id = id,
                      !.filter_author = fa] :
                     id \in PostIds, fa \in {<<>>, <<A>>} }
            \cup { [AiIntent("list", v) EXCEPT !.filter_author = fa] :
                     fa \in {<<>>, <<A>>} }
            \cup { AiIntent("archive", v), AiIntent(None, v) } :
            v \in BOOLEAN }
    \cup { [AiIntent("list", TRUE) EXCEPT !.confidence = c] : c \in OutOfRange }

FencedPostReplies ==
    { [AiIntent("list", TRUE) EXCEPT !.filter_author = <<A>>],
      [AiIntent("delete", TRUE) EXCEPT !.post_id = <<1>>] }

PostCommands ==
    { <<"1", "beon", " ", "ge", "si", "geul", " ", "je", "mog", "eul", " ",
        "sq", "n", "sq", "eu", "ro", " ", "ba", "kkwo">>,
      <<"1", "beon", " ", "ge", "si", "geul", " ", "sag", "je">>,
      <<"a", "ui", " ", "mo", "deun", " ", "ge", "si", "geul", " ", "sag", "je">>,
      <<"ge", "si", "geul", " ", "mog", "rog", " ", "bo", "yeo">>,
      <<"a", "ro", " ", "sae", " ", "ge", "si", "geul", " ", "jag", "seong",
        " ", "je", "mog", " ", "sq", "n", "sq">>,
      <<"a", "nim">> }

(***************************************************************************)
(* One request served on a table: the specification                        *)
(***************************************************************************)
DispatchInit ==
    /\ LoggerInit
    /\ store \in Stores
    /\ req = NoRequest
    /\ stage = "none"
    /\ parsed = NoIntent
    /\ response = NoResponse
    /\ handlers = <<>>
    /\ storeOps = <<>>
    /\ appended = <<>>
    /\ store0 = <<>>

\* the log() calls of the request, made in order on the shared logger
LogCalls(calls) ==
    /\ lock = Free
    /\ logs' = AppendAll(logs, Entries(nlog, calls))
    /\ recorded' = recorded \o Entries(nlog, calls)
    /\ appended' = Entries(nlog, calls)
    /\ nlog' = nlog + Len(calls)
    /\ UNCHANGED <<lock, pc, arg, inClear, result>>

\* POST /generate-chart: create_chart(request)
create_chart(command, ai) ==
    /\ stage = "none"
    /\ \E p \in {parse_chart_command_with_ai(strip(command), ai)} :
       \E served \in {serve_chart(store, command, ai, p)} :
          /\ parsed' = served.intent
          /\ response' = served.response
          /\ handlers' = served.handlers
          /\ storeOps' = served.ops
          /\ LogCalls(served.calls)
    /\ req' = [kind |-> "chart", command |-> command, ai |-> ai]
    /\ stage' = "done"
    /\ store0' = store
    /\ UNCHANGED store

\* the delete_post calls among the store operations
Deletes(ops) == SelectSeq(ops, LAMBDA op : op = "delete")

\* POST /manage-post: manage_post_with_mcp(request).  db is what the
\* persistence layer does; a failure of a call the request never makes is
\* no failure.
manage_post_with_mcp(command, ai, db) ==
    /\ stage = "none"
    /\ \E p \in {parse_post_management_command(command, ai)} :
       \E served \in {dispatch_post(store, p, db)} :
          /\ db.fail_delete <= Len(Deletes(served.ops))
          /\ parsed' = served.intent
          /\ response' = served.response
          /\ handlers' = served.handlers
          /\ storeOps' = served.ops
          /\ store' = served.store
          /\ LogCalls(served.calls)
    /\ req' = [kind |-> "post", command |-> command, ai |-> ai, db |-> db]
    /\ stage' = "done"
    /\ store0' = store

\* the store failures considered: none, or the k-th delete_post call
Faults == {[fail_delete |-> k] : k \in 0..MaxRows}

DispatchNext ==
    \/ \E command \in ChartCommands,
          ai \in AIs(ChartReplies, FencedChartReplies, {"text", "bare", "error"}) :
           create_chart(command, ai)
    \/ \E command \in PostCommands, ai \in AIs(PostReplies, FencedPostReplies, {"none"}),
          db \in Faults :
           manage_post_with_mcp(command, ai, db)

DispatchSpec == DispatchInit /\ [][DispatchNext]_vars

(***************************************************************************)
(* Claims about the dispatch of one request                                *)
(***************************************************************************)
\* a request has been answered after its command was parsed
Answered(kind) ==
    stage = "done" /\ req.kind = kind /\ parsed.method # "none"

\* the elements of a sequence
Range(s) == {s[i] : i \in DOMAIN s}

NoRepeats(s) == Cardinality(Range(s)) = Len(s)

\* the handler named name was the one invoked
Ran(name) == Len(handlers) = 1 /\ handlers[1].name = name

\* C3: when the parse (chart or post management, either strategy) returns
\* an intent with valid = false, no handler is invoked and the caller gets
\* a failure result.
C3_InvalidIntentNoHandler ==
    ((Answered("chart") \/ Answered("post")) /\ ~parsed.valid) =>
        /\ handlers = <<>>
        /\ response.status_code = 400
        /\ ~response.content.success

\* C3 witness: an AI-parsed update intent with every argument present and
\* valid = false has been answered.
C3_Witness ==
    /\ Answered("post")
    /\ parsed.method = "ai_powered"
    /\ ~parsed.valid
    /\ parsed.action = "update"
    /\ parsed.post_id = <<1>>
    /\ parsed.new_value # <<>>
    /\ Len(store0) >= 1
    /\ response.status_code = 400

\* C4: for a command that parses to valid = false the dispatcher performs
\* no store operation at all, read or write, on the chart path and on the
\* post-management path.
C4_NoStoreOperation ==
    ((Answered("chart") \/ Answered("post")) /\ ~parsed.valid) =>
        storeOps = <<>>

\* the dispatch-outcome audit entries appended for the request
AuditEntries ==
    {i \in DOMAIN appended :
        \/ req.kind = "chart" /\ appended[i].category = "chart_generation"
        \/ req.kind = "post" /\ appended[i].category = "system"
                             /\ appended[i].message = "post_management"}

\* C5: every dispatch of a valid intent, whatever its outcome, appends
\* exactly one dispatch-outcome audit entry (the chart_generation entry of
\* a chart dispatch, the post-management system event of a post dispatch).
C5_OneAuditEntry ==
    ((Answered("chart") \/ Answered("post")) /\ parsed.valid) =>
        Cardinality(AuditEntries) = 1

\* the error-level entries the single-author chart handler appended
HandlerErrorEntries ==
    {i \in DOMAIN appended :
        /\ appended[i].level = ERROR
        /\ \/ appended[i].category = "chart_generation"
           \/ /\ "api" \in DOMAIN appended[i].details
              /\ appended[i].details.api = "generate_author_chart"}

\* C6: a single-author chart dispatch with a valid chart type whose author
\* has no numeric-valued record returns success = false with a message
\* listing the authors that have numeric data, and has written exactly one
\* error-level log entry when the handler returns.
C6_NoDataFailureLogged ==
    (/\ Answered("chart")
     /\ Ran("generate_author_chart")
     /\ validate_chart_type(parsed.chart_type)
     /\ get_author_numeric_data(store0, parsed.author_name) = <<>>)
    => /\ ~response.content.success
       /\ response.content.known = <<get_available_authors(store0)>>
       /\ Cardinality(HandlerErrorEntries) = 1

\* the authors of the table that have a numeric-valued record
NumericAuthors(st) ==
    {st[i].author : i \in {k \in DOMAIN st : st[k].numeric_value # <<>>}}

\* C7: for a valid chart intent whose author reference is ALL: when the
\* store holds no author with a numeric-valued record the request is
\* answered with the "no authors" failure, without a fault and without a
\* chart handler; otherwise the multi-author handler is invoked with
\* exactly the distinct authors that have numeric data.
C7_AllAuthors ==
    (Answered("chart") /\ parsed.valid /\ parsed.is_multi_author
       /\ parsed.author_names = ALL_AUTHORS)
    => IF NumericAuthors(store0) = {}
       THEN /\ handlers = <<>>
            /\ response.status_code = 400
            /\ response.content.message = "no_authors"
            /\ ~response.content.success
            /\ AuditEntries = {}
       ELSE /\ Ran("generate_multi_author_chart")
            /\ Range(handlers[1].authors) = NumericAuthors(store0)
            /\ NoRepeats(handlers[1].authors)

\* C7 witness: an ALL request on a table where one author has two
\* numeric-valued records, the handler invoked with that author once.
C7_Witness ==
    /\ Answered("chart")
    /\ parsed.valid
    /\ parsed.author_names = ALL_AUTHORS
    /\ Len(store0) = 2
    /\ store0[1].author = store0[2].author
    /\ store0[1].numeric_value # <<>>
    /\ store0[2].numeric_value # <<>>
    /\ Ran("generate_multi_author_chart")
    /\ Len(handlers[1].authors) = 1

\* C8: for a multi-author chart intent, whichever strategy produced it,
\* the authors the multi-author handler resolves and reports contain each
\* name once, and each stored record of those authors is counted once.
C8_ResolvedOnce ==
    (Answered("chart") /\ Ran("generate_multi_author_chart")
       /\ response.content.success)
    => /\ NoRepeats(response.content.authors[1])
       /\ response.content.data_count[1] =
            Cardinality({i \in DOMAIN store0 :
                           /\ store0[i].numeric_value # <<>>
                           /\ store0[i].author \in Range(response.content.authors[1])})

\* the column an update intent names
UpdatedField ==
    IF parsed.field_to_update[1] \in {<<"title">>, <<"je", "mog">>} THEN "title"
    ELSE IF parsed.field_to_update[1] \in {<<"content">>, <<"nae", "yong">>}
    THEN "content"
    ELSE "author"

\* C10: a successful update dispatch on an existing record with field f in
\* {title, content, author} changes only field f of that record, to
\* new_value; its other columns and every other record are unchanged.
C10_UpdateOnlyField ==
    (Answered("post") /\ Ran("_handle_update_post") /\ response.content.success)
    => /\ Len(store) = Len(store0)
       /\ \E i \in DOMAIN store0 : store0[i].id = parsed.post_id[1]
       /\ \A i \in DOMAIN store0 :
            IF store0[i].id # parsed.post_id[1] THEN store[i] = store0[i]
            ELSE store[i] =
                   [store0[i] EXCEPT
                      !.title = IF UpdatedField = "title"
                                THEN parsed.new_value[1] ELSE @,
                      !.content = IF UpdatedField = "content"
                                  THEN <<parsed.new_value[1]>> ELSE @,
                      !.author = IF UpdatedField = "author"
                                 THEN parsed.new_value[1] ELSE @]

\* C10 witness: a successful update of the content of the first of two
\* records.
C10_Witness ==
    /\ Answered("post")
    /\ Ran("_handle_update_post")
    /\ response.content.success
    /\ UpdatedField = "content"
    /\ parsed.post_id = <<1>>
    /\ Len(store0) = 2
    /\ store[1].content # store0[1].content

\* the record with this id was in the table when the request was submitted
Stored(id) == \E i \in DOMAIN store0 : store0[i].id = id

\* the records of this author in the table when the request was submitted
RecordsOf(author) == {i \in DOMAIN store0 : store0[i].author = author}

\* not x, for an int or None
NoId(x) == x = <<>> \/ x[1] = 0

\* C11: a post-management dispatch that returns a validation failure
\* (status 400) or a not-found failure (status 404) leaves the store as it
\* was.  Create without author or title is answered 400; update without
\* post_id, field or new_value, or with an unknown field name, 400; update
\* of an absent record 404; delete of an absent id, or of an author with no
\* record, 404.
C11_FailureLeavesStore ==
    (Answered("post") /\ Len(handlers) = 1) =>
        /\ response.status_code \in {400, 404} =>
              (store = store0 /\ ~response.content.success)
        /\ (Ran("_handle_create_post")
               /\ (Falsy(parsed.author) \/ Falsy(parsed.title)))
             => response.status_code = 400
        /\ Ran("_handle_update_post") =>
             IF NoId(parsed.post_id) \/ Falsy(parsed.field_to_update)
                  \/ parsed.new_value = <<>>
             THEN response.status_code = 400
             ELSE IF ~Stored(parsed.post_id[1])
             THEN response.status_code = 404
             ELSE (parsed.field_to_update[1] \notin UpdatableFields)
                    => response.status_code = 400
        /\ (Ran("_handle_delete_post") /\ ~NoId(parsed.post_id)
               /\ ~Stored(parsed.post_id[1]))
             => response.status_code = 404
        /\ (Ran("_handle_delete_post") /\ NoId(parsed.post_id)
               /\ ~Falsy(parsed.filter_author)
               /\ RecordsOf(parsed.filter_author[1]) = {})
             => response.status_code = 404

\* C11 witness: an update of an existing record that names the field
\* "category" has been refused with status 400.
C11_Witness ==
    /\ Answered("post")
    /\ Ran("_handle_update_post")
    /\ parsed.post_id = <<1>>
    /\ Stored(1)
    /\ parsed.field_to_update = <<<<"category">>>>
    /\ parsed.new_value # <<>>
    /\ response.status_code = 400
    /\ store = store0

\* C12: a delete dispatch with no post_id and filter_author = a, the store
\* not failing: when a record has author a, every record of author a is
\* removed and no other, and deleted_count is the number of records
\* removed; when no record has author a the answer is a not-found failure.
C12_DeleteByAuthor ==
    (/\ Answered("post")
     /\ Ran("_handle_delete_post")
     /\ req.db.fail_delete = 0
     /\ NoId(parsed.post_id)
     /\ ~Falsy(parsed.filter_author))
    => IF RecordsOf(parsed.filter_author[1]) = {}
       THEN /\ response.status_code = 404
            /\ ~response.content.success
            /\ store = store0
       ELSE /\ response.content.success
            /\ store = SelectSeq(store0,
                           LAMBDA post : post.author # parsed.filter_author[1])
            /\ response.content.deleted_count =
                 Cardinality(RecordsOf(parsed.filter_author[1]))

\* C12 witness: both records of a two-record table were of the author and
\* have been removed.
C12_Witness ==
    /\ Answered("post")
    /\ Ran("_handle_delete_post")
    /\ NoId(parsed.post_id)
    /\ ~Falsy(parsed.filter_author)
    /\ Cardinality(RecordsOf(parsed.filter_author[1])) = 2
    /\ store = <<>>
    /\ response.content.deleted_count = 2

\* the methods a ParsedIntent carries
Methods == {"ai_powered", "regex_fallback", "error"}

\* a parse request has returned to the dispatcher or raised to it
ParseCalled ==
    /\ stage = "done"
    /\ req.kind \in {"chart", "post"}
    /\ parsed.method # "none"

\* C13: whatever the command and whatever the AI service does (no client,
\* the request raising, a reply without JSON, with malformed JSON, with
\* JSON that is no object, with a wrongly typed confidence), the parsers
\* raise nothing to the caller and return an intent carrying a method and
\* a boolean valid; a fault the post parser does not answer with the
\* fallback's result is returned as method = error with valid = false.
C13_ParseTotal ==
    ParseCalled =>
        /\ parsed.method \in Methods
        /\ parsed.valid \in BOOLEAN
        /\ (req.kind = "post" /\ log_parsing_raises(req.ai) # <<>>)
             => (parsed.method = "error" /\ ~parsed.valid)
        /\ (req.kind = "chart" /\ req.ai.mode \in FailureModes)
             => parsed.method = "regex_fallback"

\* C13 witness: the post parser has answered a reply whose confidence is
\* null with the error intent, which the dispatcher refused.
C13_Witness ==
    /\ ParseCalled
    /\ req.kind = "post"
    /\ req.ai.mode = "null_confidence"
    /\ parsed.method = "error"
    /\ response.status_code = 400

\* C17: every intent returned with method = error has confidence 0 and
\* valid = false.
C17_ErrorIntent ==
    (ParseCalled /\ parsed.method = "error") =>
        /\ parsed.confidence = 0
        /\ ~parsed.valid

\* C17 witness: the post parser has returned an intent with method = error
\* for a reply whose confidence is a str.
C17_Witness ==
    /\ ParseCalled
    /\ req.kind = "post"
    /\ req.ai.mode = "str_confidence"
    /\ parsed.method = "error"
    /\ parsed.confidence = 0

\* the modes in which the AI service is unavailable, fails, or returns
\* output that does not decode into a JSON object
Undecoded == {"unavailable", "api_error", "no_json", "bad_json", "non_object"}

\* what the pattern fallback returns for the command of the request
FallbackResult ==
    IF req.kind = "chart" THEN parse_chart_command_fallback(strip(req.command))
    ELSE parse_post_command_fallback(req.command)

\* C14: when the AI service is unavailable, fails, or returns output that
\* does not decode, the intent returned (chart and post management alike)
\* is the one the pattern fallback produces for the same text, its method
\* marking the fallback; method is ai_powered only when the reply was
\* decoded.
C14_FallbackTransparent ==
    ParseCalled =>
        /\ req.ai.mode \in Undecoded =>
             (parsed = FallbackResult /\ parsed.method = "regex_fallback")
        /\ parsed.method = "ai_powered" =>
             IF req.kind = "chart" THEN chart_decodes(req.ai)
             ELSE post_decodes(req.ai)

\* C14 witness: the reply to a post command was malformed JSON and the
\* update intent of the patterns has been returned.
C14_Witness ==
    /\ ParseCalled
    /\ req.kind = "post"
    /\ req.ai.mode = "bad_json"
    /\ parsed.method = "regex_fallback"
    /\ parsed.valid
    /\ parsed.action = "update"
    /\ parsed.new_value = <<<<"n">>>>

\* the chart types and the actions of the closed sets
ChartTypes == {"bar", "line", "pie", "doughnut"}

Actions == {"create", "update", "delete", "list"}

\* C15: every intent the parsers return with valid = true carries a
\* chart_type of {bar, line, pie, doughnut} (chart) or an action of
\* {create, update, delete, list} (post management): a decoded AI reply
\* with another chart_type or action is not handed to the dispatcher as a
\* valid intent.
C15_ClosedSets ==
    (ParseCalled /\ parsed.valid) =>
        IF req.kind = "chart" THEN parsed.chart_type \in ChartTypes
        ELSE parsed.action \in Actions

\* C16: every intent the parsers return has a confidence within [0, 1]
\* (0 to 100 hundredths), a confidence the AI service reports outside the
\* range being clamped into it.
C16_ConfidenceClamped ==
    ParseCalled => (0 <= parsed.confidence /\ parsed.confidence <= 100)

\* C18: when a delete_post call fails during a delete dispatch, the store
\* is as it was before the dispatch (the deletions the action had already
\* made are rolled back) and the failure is returned to the caller.
C18_DeleteRolledBack ==
    (Answered("post") /\ Ran("_handle_delete_post") /\ req.db.fail_delete > 0)
    => /\ store = store0
       /\ ~response.content.success
       /\ response.status_code = 500

\* the authors of an explicit name list that have no numeric-valued record
Dropped ==
    {a \in Range(parsed.author_names.names) :
        get_author_numeric_data(store0, a) = <<>>}

\* C19: a multi-author chart dispatch on an explicit name list of which at
\* least one author has numeric data succeeds; the authors it resolves are
\* the listed ones with a numeric-valued record, and every listed author
\* without one is named in the result as excluded.
C19_ExcludedReported ==
    (/\ Answered("chart")
     /\ Ran("generate_multi_author_chart")
     /\ parsed.author_names.kind = "list"
     /\ validate_chart_type(parsed.chart_type)
     /\ Dropped # Range(parsed.author_names.names))
    => /\ response.content.success
       /\ Range(response.content.authors[1]) =
            Range(parsed.author_names.names) \ Dropped
       /\ \A a \in Dropped :
            /\ "excluded" \in DOMAIN response.content
            /\ a \in Range(response.content.excluded)

\* the statements of a chart code, its comments left out
Statements(code) == SelectSeq(code, LAMBDA line : line # "comment")

\* C20: the chart_code of every successful chart result (one author or
\* several, made locally or taken from the AI service's reply) disposes of
\* the chart rendered before as its first statement, before it constructs
\* the new chart.
C20_DisposesFirst ==
    (Answered("chart") /\ Len(handlers) = 1 /\ response.content.success)
    => /\ response.content.chart_code # <<>>
       /\ Statements(response.content.chart_code[1]) # <<>>
       /\ Statements(response.content.chart_code[1])[1] = "dispose"
       /\ \E i \in DOMAIN response.content.chart_code[1] :
             response.content.chart_code[1][i] = "construct"

(***************************************************************************)
(* The fallback parsers applied to bounded commands                        *)
(***************************************************************************)
\* the most phrases a post-management command is made of
MaxPhrases == 2

\* the phrases the post-management commands are built from: one that
\* matches a create pattern, an update pattern, each delete pattern, each
\* list pattern, and one that matches none
Phrases ==
    { <<"a", "ro", " ", "ge", "si", "geul", " ", "jag", "seong">>,
      <<"1", "beon", " ", "ge", "si", "geul", " ", "je", "mog", "eul", " ",
        "sq", "n", "sq", "eu", "ro", " ", "su", "jeong">>,
      <<"2", "beon", " ", "ge", "si", "geul", " ", "sag", "je">>,
      <<"ge", "si", "geul", " ", "2", " ", "sag", "je">>,
      <<"b", "ui", " ", "ge", "si", "geul", " ", "sag", "je">>,
      <<"ge", "si", "geul", " ", "mog", "rog", " ", "bo", "yeo">>,
      <<"b", "ui", " ", "ge", "si", "geul", " ", "bo", "yeo">>,
      <<"a", "nim">> }

\* the commands of one to n phrases, a space between two phrases
RECURSIVE Joined(_)
Joined(n) ==
    IF n = 1 THEN Phrases
    ELSE Joined(n - 1)
           \cup {c \o <<" ">> \o w : c \in Joined(n - 1), w \in Phrases}

ParseInit ==
    /\ LoggerInit
    /\ store = <<>>
    /\ \/ \E c \in Concats(MaxWords) :
              req = [kind |-> "chart_fallback", command |-> c]
       \/ \E c \in Joined(MaxPhrases) :
              req = [kind |-> "post_fallback", command |-> c]
    /\ stage = "submitted"
    /\ parsed = NoIntent
    /\ response = NoResponse
    /\ handlers = <<>>
    /\ storeOps = <<>>
    /\ appended = <<>>
    /\ store0 = <<>>

\* parsed = self._parse_chart_command_fallback(command)
ParseChartFallback ==
    /\ stage = "submitted"
    /\ req.kind = "chart_fallback"
    /\ parsed' = parse_chart_command_fallback(req.command)
    /\ stage' = "parsed"
    /\ UNCHANGED <<store, req, response, handlers, storeOps, appended, store0>>
    /\ UNCHANGED loggerVars

\* parsed = self._parse_post_command_fallback(command)
ParsePostFallback ==
    /\ stage = "submitted"
    /\ req.kind = "post_fallback"
    /\ parsed' = parse_post_command_fallback(req.command)
    /\ stage' = "parsed"
    /\ UNCHANGED <<store, req, response, handlers, storeOps, appended, store0>>
    /\ UNCHANGED loggerVars

ParseNext == ParseChartFallback \/ ParsePostFallback

ParseSpec == ParseInit /\ [][ParseNext]_vars

\* C9: when the fallback chart parser is given a command that matches none
\* of the all-authors and multi-author patterns and at least one of the
\* single-name patterns, the intent is valid, its author_name is the
\* capture of the first single-name pattern that matches, and its
\* confidence is positive.
C9_SingleNameWins ==
    (/\ stage = "parsed"
     /\ req.kind = "chart_fallback"
     /\ ~AllAuthorsMatch(strip(req.command))
     /\ multi_author_names(strip(req.command)) = <<>>
     /\ author_name_local(strip(req.command)).found)
    => /\ parsed.valid
       /\ parsed.author_name = author_name_local(strip(req.command)).group
       /\ parsed.confidence > 0

(***************************************************************************)
(* Claims about the logger under concurrent callers                        *)
(***************************************************************************)
\* the task is inside the critical section guarded by MCPLogger._lock
InSection(p) == inClear[p] \/ lock = p

\* C21: the logger's operations exclude each other (at most one task is
\* inside the section guarded by _lock, and it is the holder of the lock),
\* so however the log() calls of the tasks interleave the buffer holds
\* exactly the min(m, max_logs) most recent of the m entries recorded since
\* the last clear, each of them whole, and a read returns only whole
\* recorded entries.
C21_MutualExclusion ==
    /\ lock \in {Free} \cup Tasks
    /\ \A p, q \in Tasks : (InSection(p) /\ InSection(q)) => p = q
    /\ \A p \in Tasks : InSection(p) => lock = p
    /\ Len(logs) = Min(Len(recorded), max_logs)
    /\ logs = LastN(recorded, max_logs)
    /\ \A p \in Tasks : result[p].kind = "list" =>
          \A i \in 1..Len(result[p].val) :
             \E j \in 1..Len(result[p].hist) :
                result[p].val[i] = to_dict(result[p].hist[j])

\* C21 witness: a log() call of one task is in flight while a log() call of
\* the other has completed, more entries have been recorded than the
\* buffer keeps, and the buffer has been trimmed to max_logs entries.
C21_Witness ==
    \E p, q \in Tasks :
        /\ p # q
        /\ pc[p] = "log"
        /\ ~inClear[p]
        /\ result[q].kind = "logged"
        /\ Len(recorded) > max_logs
        /\ Len(logs) = max_logs

\* C22: get_logs leaves the buffer as it found it, and a get_logs(limit)
\* answered when another get_logs with the same limit has been answered
\* with no log() or clear_logs() since returns the sequence that one
\* returned.
C22_ReadIdempotent ==
    [][ \A p \in Tasks : get_logs(p) =>
          /\ logs' = logs
          /\ \A q \in Tasks \ {p} :
                (/\ result[q].kind = "list"
                 /\ result[q].limit = arg[p].limit
                 /\ result[q].hist = recorded)
                => /\ result'[p].kind = "list"
                   /\ result'[p].val = result[q].val ]_vars

\* C22 witness: two reads with the same limit of one, answered with no
\* record or clear between them, on a buffer of more than one entry.
C22_Witness ==
    /\ result["t1"].kind = "list"
    /\ result["t2"].kind = "list"
    /\ result["t1"].limit = <<1>>
    /\ result["t2"].limit = <<1>>
    /\ result["t1"].hist = result["t2"].hist
    /\ Len(result["t1"].hist) > 1
    /\ result["t1"].val = result["t2"].val
    /\ Len(result["t1"].val) = 1

(***************************************************************************)
(* Claims about the pattern fallback                                       *)
(***************************************************************************)
\* C23: an intent made by the pattern fallback, for a chart command or a
\* post-management command, has the strategy's fixed non-zero confidence
\* when it is valid and confidence 0 when it is not.
C23_FallbackConfidence ==
    ((Answered("chart") \/ Answered("post")) /\ parsed.method = "regex_fallback")
    => IF parsed.valid
       THEN /\ parsed.confidence > 0
            /\ parsed.confidence = IF req.kind = "chart"
                                   THEN FallbackConfidence
                                   ELSE PostFallbackConfidence
       ELSE parsed.confidence = 0

\* some pattern of the group is found in the command
Matches(patterns, s) == FirstFound(patterns, s, 1) > 0

\* the fields only the groups after create set
NoLaterFields(intent) ==
    /\ intent.post_id = <<>>
    /\ intent.field_to_update = <<>>
    /\ intent.new_value = <<>>
    /\ intent.filter_author = <<>>

\* C24: the post fallback's action is that of the first of the groups
\* create, update, delete, list that has a pattern found in the command,
\* whatever later groups would also match; the fields that only later
\* groups set stay None; when no group matches, action is None and the
\* intent is not valid.
C24_FirstGroupWins ==
    (stage = "parsed" /\ req.kind = "post_fallback") =>
       IF Matches(create_patterns, req.command)
       THEN /\ parsed.action = "create"
            /\ parsed.valid
            /\ NoLaterFields(parsed)
       ELSE IF Matches(update_patterns, req.command)
       THEN /\ parsed.action = "update"
            /\ parsed.valid
            /\ parsed.post_id # <<>>
            /\ parsed.filter_author = <<>>
            /\ parsed.author = <<>>
       ELSE IF Matches(delete_patterns, req.command)
       THEN /\ parsed.action = "delete"
            /\ parsed.valid
            /\ parsed.field_to_update = <<>>
            /\ parsed.new_value = <<>>
            /\ parsed.author = <<>>
            /\ (parsed.post_id = <<>>) # (parsed.filter_author = <<>>)
       ELSE IF Matches(list_patterns, req.command)
       THEN /\ parsed.action = "list"
            /\ parsed.valid
            /\ parsed.post_id = <<>>
            /\ parsed.field_to_update = <<>>
            /\ parsed.new_value = <<>>
            /\ parsed.author = <<>>
       ELSE /\ parsed.action = None
            /\ ~parsed.valid
            /\ NoLaterFields(parsed)

\* C24 witness: a command in which a create pattern and a delete pattern
\* are both found, parsed as a create with none of the later groups'
\* fields.
C24_Witness ==
    /\ stage = "parsed"
    /\ req.kind = "post_fallback"
    /\ Matches(create_patterns, req.command)
    /\ Matches(delete_patterns, req.command)
    /\ parsed.action = "create"
    /\ NoLaterFields(parsed)

\* C25: when an all-authors phrase is found in the command, the chart
\* fallback returns the ALL_AUTHORS sentinel, marked multi-author and
\* valid, with no single author_name, whether or not the multi-name and
\* the single-name patterns also match.
C25_AllAuthorsFirst ==
    (/\ stage = "parsed"
     /\ req.kind = "chart_fallback"
     /\ AllAuthorsMatch(strip(req.command)))
    => /\ parsed.author_names = ALL_AUTHORS
       /\ parsed.is_multi_author
       /\ parsed.valid
       /\ parsed.author_name = <<>>

\* C25 witness: a command with an all-authors phrase in which a multi-name
\* pattern and a single-name pattern also match, parsed as ALL_AUTHORS.
C25_Witness ==
    /\ stage = "parsed"
    /\ req.kind = "chart_fallback"
    /\ AllAuthorsMatch(strip(req.command))
    /\ multi_author_names(strip(req.command)) # <<>>
    /\ author_name_local(strip(req.command)).found
    /\ parsed.author_names = ALL_AUTHORS

\* C26: a reply that holds one well-formed JSON object, bare or inside a
\* code fence, is decoded by the chart parser and by the post-management
\* parser alike: the intent returned is the one of the reply, its method
\* ai_powered, not the pattern fallback's.
C26_BareOrFenced ==
    (ParseCalled /\ req.ai.mode \in {"object", "fenced_object"})
    => /\ parsed.method = "ai_powered"
       /\ parsed.valid = req.ai.reply.valid
       /\ parsed.confidence = req.ai.reply.confidence

(***************************************************************************)
(* The logger under fair scheduling: the event loop resumes every          *)
(* coroutine that can run, so a logger coroutine that can take its step    *)
(* eventually takes it.                                                    *)
(***************************************************************************)
LoggerFairness ==
    \A p \in Tasks :
        /\ WF_vars(log(p))
        /\ WF_vars(get_logs(p))
        /\ WF_vars(clear_logs(p))

LoggerLiveSpec == LoggerSpecInit /\ [][LoggerNext]_vars /\ LoggerFairness

\* C27: every logger call a task has made (the record calls of a command
\* being served, a read, a clear) eventually returns, also when a clear has
\* been requested before it or along with it: the lock is never left held
\* for ever.
C27_CallsComplete ==
    \A p \in Tasks : (pc[p] # "idle") ~> (pc[p] = "idle")

\* C28: every entry in the log buffer has a level that is a member of
\* LogLevel, so that get_logs can convert every entry it returns; this
\* holds after a post-management request parsed while the AI service is
\* unavailable as after any other request.
C28_LevelsTyped ==
    \A i \in DOMAIN logs :
        /\ logs[i].level \in LogLevel
        /\ ~to_dict_raises(logs[i])

\* the buffer a get_logs answered on: the entries kept of those recorded
BufferOf(hist) == LastN(hist, max_logs)

\* C29: a get_logs(limit) with an integer limit >= 0 returns exactly
\* min(limit, size) entries, the most recently recorded ones in call order
\* (none for limit 0), and a get_logs with no limit returns the whole
\* buffer.
C29_ReadLimit ==
    \A p \in Tasks : result[p].kind = "list" =>
        IF result[p].limit = <<>>
        THEN result[p].val = to_dicts(BufferOf(result[p].hist))
        ELSE /\ Len(result[p].val)
                  = Min(result[p].limit[1], Len(BufferOf(result[p].hist)))
             /\ result[p].val
                  = to_dicts(LastN(BufferOf(result[p].hist), result[p].limit[1]))

(***************************************************************************)
(* Two post-management requests in flight on one table.  Each task runs    *)
(* manage_post_with_mcp; control can pass to the other task only where the *)
(* coroutine awaits: in the parse (the request to the AI service, the      *)
(* log() calls) and in the log_system_event call after the handler.        *)
(* _handle_update_post awaits nothing: its read of the record and its      *)
(* write are one step.  pc[p] is where the task is, arg[p] its request and *)
(* what it holds between steps, result[p] the response it returned.        *)
(***************************************************************************)
\* post ids the two requests name
UpdateIds == {<<1>>, <<2>>}

\* the requests: an update of one field of a record decoded from the AI
\* service's reply, or the update of a title read by the patterns
UpdateRequests ==
    { [command |-> <<"a", "nim">>,
       ai |-> [mode |-> "object", code |-> "none",
               reply |-> [AiIntent("update", TRUE) EXCEPT
                            !.post_id = id, !.field_to_update = <<f>>,
                            !.new_value = <<<<"n">>>>]]] :
        id \in UpdateIds, f \in {<<"title">>, <<"content">>, <<"author">>} }
    \cup
    { [command |-> <<"1", "beon", " ", "ge", "si", "geul", " ", "je", "mog",
                     "eul", " ", "sq", "n", "sq", "eu", "ro", " ", "ba", "kkwo">>,
       ai |-> [mode |-> "unavailable", code |-> "none", reply |-> NoReply]] }

NotParsed == Parsed(NoIntent, <<>>)

UpdateInit ==
    /\ logs = <<>>
    /\ lock = Free
    /\ inClear = [p \in Tasks |-> FALSE]
    /\ nlog = 0
    /\ recorded = <<>>
    /\ store \in Stores
    /\ store0 = store
    /\ pc = [p \in Tasks |-> "submitted"]
    /\ \E r \in [Tasks -> UpdateRequests] :
          arg = [p \in Tasks |->
                   [command |-> r[p].command, ai |-> r[p].ai,
                    parsed |-> NotParsed, calls |-> <<>>]]
    /\ result = [p \in Tasks |-> NoResponse]
    /\ req = NoRequest
    /\ stage = "none"
    /\ parsed = NoIntent
    /\ response = NoResponse
    /\ handlers = <<>>
    /\ storeOps = <<>>
    /\ appended = <<>>

\* the task's log() calls, made on the shared logger
TaskLogs(calls) ==
    /\ lock = Free
    /\ logs' = AppendAll(logs, Entries(nlog, calls))
    /\ recorded' = recorded \o Entries(nlog, calls)
    /\ nlog' = nlog + Len(calls)

\* parsed_result = await real_mcp_server.parse_post_management_command(...)
AwaitParse(p) ==
    /\ pc[p] = "submitted"
    /\ \E parsed_result \in {parse_post_management_command(arg[p].command,
                                                           arg[p].ai)} :
          /\ arg' = [arg EXCEPT ![p].parsed = parsed_result]
          /\ TaskLogs(parsed_result.calls)
    /\ pc' = [pc EXCEPT ![p] = "parsed"]
    /\ UNCHANGED <<lock, inClear, result>>
    /\ UNCHANGED requestVars

\* the mutant of HandleCommand: the handler works on the table as it was
\* when the request was submitted
HandleCommandStaleRead(p) ==
    /\ pc[p] = "parsed"
    /\ \E served \in {dispatch_post(store0, arg[p].parsed, NoFault)} :
          /\ store' = served.store
          /\ result' = [result EXCEPT ![p] = served.response]
          /\ arg' = [arg EXCEPT ![p].calls =
                       SubSeq(served.calls, Len(arg[p].parsed.calls) + 1,
                              Len(served.calls))]
    /\ pc' = [pc EXCEPT ![p] = "handled"]
    /\ UNCHANGED <<logs, lock, inClear, nlog, recorded>>
    /\ UNCHANGED <<req, stage, parsed, response, handlers, storeOps, appended,
                   store0>>

\* manage_post_with_mcp from the parsed intent to the handler's return: the
\* check of valid, the choice of the handler, the handler
HandleCommand(p) ==
    /\ pc[p] = "parsed"
    /\ \E served \in {dispatch_post(store, arg[p].parsed, NoFault)} :
          /\ store' = served.store
          /\ result' = [result EXCEPT ![p] = served.response]
          /\ arg' = [arg EXCEPT ![p].calls =
                       SubSeq(served.calls, Len(arg[p].parsed.calls) + 1,
                              Len(served.calls))]
    /\ pc' = [pc EXCEPT ![p] = "handled"]
    /\ UNCHANGED <<logs, lock, inClear, nlog, recorded>>
    /\ UNCHANGED <<req, stage, parsed, response, handlers, storeOps, appended,
                   store0>>

\* await mcp_logger.log_system_event(...); return JSONResponse(...)
Respond(p) ==
    /\ pc[p] = "handled"
    /\ TaskLogs(arg[p].calls)
    /\ pc' = [pc EXCEPT ![p] = "done"]
    /\ UNCHANGED <<lock, inClear, result, arg>>
    /\ UNCHANGED requestVars

UpdateNext ==
    \E p \in Tasks :
        \/ AwaitParse(p)
        \/ HandleCommand(p)
        \/ Respond(p)

UpdateSpec == UpdateInit /\ [][UpdateNext]_vars

\* the column an update intent names
FieldOf(intent) ==
    IF intent.field_to_update[1] \in {<<"title">>, <<"je", "mog">>} THEN "title"
    ELSE IF intent.field_to_update[1] \in {<<"content">>, <<"nae", "yong">>}
    THEN "content"
    ELSE "author"

\* the value the intent of task p writes to column f, or the value old
Written(p, f, old) ==
    IF FieldOf(arg[p].parsed.intent) # f THEN old
    ELSE IF f = "content" THEN <<arg[p].parsed.intent.new_value[1]>>
    ELSE arg[p].parsed.intent.new_value[1]

\* both requests have returned, and they were updates of two different
\* columns of one record that was in the table
TwoUpdatesDone ==
    /\ \A p \in Tasks : pc[p] = "done"
    /\ \A p \in Tasks : arg[p].parsed.intent.valid
    /\ \A p \in Tasks : arg[p].parsed.intent.action = "update"
    /\ arg["t1"].parsed.intent.post_id = arg["t2"].parsed.intent.post_id
    /\ \E i \in DOMAIN store0 : <<store0[i].id>> = arg["t1"].parsed.intent.post_id
    /\ FieldOf(arg["t1"].parsed.intent) # FieldOf(arg["t2"].parsed.intent)

\* C30: when two update requests on one existing record, for two different
\* columns among title, content and author, are in flight together, both
\* return success and the record ends with both new values, its third
\* column and every other record as they were.
C30_BothUpdatesKept ==
    TwoUpdatesDone =>
        /\ \A p \in Tasks : result[p].status_code = 200 /\ result[p].content.success
        /\ Len(store) = Len(store0)
        /\ \A i \in DOMAIN store0 :
             IF <<store0[i].id>> # arg["t1"].parsed.intent.post_id
             THEN store[i] = store0[i]
             ELSE store[i] =
                    [store0[i] EXCEPT
                       !.title = Written("t1", "title", Written("t2", "title", @)),
                       !.content = Written("t1", "content",
                                           Written("t2", "content", @)),
                       !.author = Written("t1", "author",
                                          Written("t2", "author", @))]

\* C30 witness: the request of t1 was parsed first (its warning entry is
\* the second of the log) and answered last (its system event is the last
\* entry), the request of t2 was parsed, handled and answered in between,
\* and the record carries the title of the one and the content of the
\* other.
C30_Witness ==
    /\ TwoUpdatesDone
    /\ arg["t1"].ai.mode = "unavailable"
    /\ arg["t2"].ai.mode = "object"
    /\ FieldOf(arg["t2"].parsed.intent) = "content"
    /\ recorded[2].level = RawLevel("warning")
    /\ recorded[Len(recorded)].details.method = "regex_fallback"
    /\ store[1].title = <<"n">>
    /\ store[1].content = <<<<"n">>>>

====
